---- MODULE Spec2Model ----
(***************************************************************************)
(* gitsummarizer: the settings store (config.py), the prompt renderer and  *)
(* the model clients (models/), and the orchestrator (summarizer.py).      *)
(*                                                                         *)
(* Python values are modelled as follows.  None is the string NoneVal.     *)
(* A dict is a function whose DOMAIN is its key set.  A template is a      *)
(* sequence of tokens, each a literal or a replacement field; a rendered   *)
(* prompt and a history extract are sequences of literal strings.  An      *)
(* exception is the name of its class; "none" means the call returned.     *)
(***************************************************************************)
EXTENDS Integers, Sequences, FiniteSets, TLC

VARIABLES
    file,      \* the settings file ~/.config/gitsumm/config.json
    defcfg,    \* the module-level dict DEFAULT_CONFIG of this process
    env,       \* the <PROVIDER>_API_KEY environment variables of this process
    summarizer,\* the Summarizer object of this process; made is FALSE before it exists
    out,       \* what the last call did: its name, arguments, exception, result
    hist,      \* history: the value last given to each settings field by a setter
    pristine,  \* history: fresh install, and every setter's write succeeded so far
    calls,     \* number of calls made, and of commands started, so far
    cli,       \* the gitsumm command being run: its position, arguments, output
    procs      \* other processes inside a setter: what each loaded and will save

vars == <<file, defcfg, env, summarizer, out, hist, pristine, calls, cli, procs>>

\* Number of calls explored in one behaviour.
MaxCalls == 3

\* Number of gitsumm commands started in one behaviour.
MaxCommands == 2

NoneVal == "<None>"

\* ---------------------------------------------------------------- dicts

EmptyDict == [k \in {} |-> NoneVal]

\* d[k] = v of Python, on an immutable value
Put(d, k, v) == [x \in (DOMAIN d) \cup {k} |-> IF x = k THEN v ELSE d[x]]

\* d.get(k, dflt)
Get(d, k, dflt) == IF k \in DOMAIN d THEN d[k] ELSE dflt

\* ---------------------------------------------------------------- templates

Lit(s) == [f |-> "lit", s |-> s]
Field(s) == [f |-> "field", s |-> s]

\* models/base.py DEFAULT_TEMPLATE; the same text as DEFAULT_CONFIG's "default"
DEFAULT_TEMPLATE ==
    <<Lit("I need you to summarize ... Here are the git changes to summarize:"),
      Field("git_data"),
      Lit("Provide a concise but informative summary ... Markdown")>>

\* ---------------------------------------------------------------- config.py

TopKeys == {"provider", "api_keys", "model_preferences", "prompt_templates", "defaults"}

\* the top-level keys whose value is a (mutable) dict
DictKeys == TopKeys \ {"provider"}

DefaultModels ==
    [p \in {"groq", "openai", "gemini", "ollama", "anthropic"} |->
        CASE p = "groq" -> "llama-3.2-1b-preview"
          [] p = "openai" -> "gpt-4o"
          [] p = "gemini" -> "gemini-2.0-flash"
          [] p = "ollama" -> "llama3"
          [] p = "anthropic" -> "claude-3.5-sonnet-20240229"]

DefaultDefaults ==
    [k \in {"recent_commits", "compare_branch", "output_format"} |->
        CASE k = "recent_commits" -> 5
          [] k = "compare_branch" -> "main"
          [] k = "output_format" -> "text"]

DEFAULT_CONFIG ==
    [k \in TopKeys |->
        CASE k = "provider" -> "groq"
          [] k = "api_keys" -> EmptyDict
          [] k = "model_preferences" -> DefaultModels
          [] k = "prompt_templates" -> [n \in {"default"} |-> DEFAULT_TEMPLATE]
          [] k = "defaults" -> DefaultDefaults]

\* The settings file, by kind: "nodir" (no directory, and mkdir raises),
\* "absent", "unreadable" (open raises IOError), "binary" (bytes that are not
\* UTF-8), "badjson" (text that is not JSON), "nonobject" (JSON that is not an
\* object: a list), "object" (a JSON object, doc).
FileOf(kind) == [kind |-> kind, doc |-> EmptyDict]
FileDoc(doc) == [kind |-> "object", doc |-> doc]

\* a load that returns the file's object as it is, without the backfill
load_config_no_backfill ==
    CASE file.kind \in {"nodir", "binary", "nonobject"} ->
            [raised |-> "OSError", doc |-> EmptyDict, aliased |-> {}]
      [] file.kind \in {"absent", "unreadable", "badjson"} ->
            [raised |-> "none", doc |-> defcfg, aliased |-> DictKeys]
      [] file.kind = "object" ->
            [raised |-> "none", doc |-> file.doc, aliased |-> {}]

\* load_config(): [raised, doc, aliased].  aliased is the set of top-level
\* keys whose dict in the returned document IS the dict of DEFAULT_CONFIG
\* (dict.copy() is shallow, and the backfill assigns DEFAULT_CONFIG's value).
load_config ==
    CASE file.kind = "nodir" ->
            [raised |-> "OSError", doc |-> EmptyDict, aliased |-> {}]
      [] file.kind = "binary" ->
            [raised |-> "UnicodeDecodeError", doc |-> EmptyDict, aliased |-> {}]
      [] file.kind = "absent" ->
            [raised |-> "none", doc |-> defcfg, aliased |-> DictKeys]
      [] file.kind \in {"unreadable", "badjson"} ->
            [raised |-> "none", doc |-> defcfg, aliased |-> DictKeys]
      [] file.kind = "nonobject" ->
            [raised |-> "TypeError", doc |-> EmptyDict, aliased |-> {}]
      [] file.kind = "object" ->
            [raised |-> "none",
             doc |-> [k \in TopKeys \cup DOMAIN file.doc |->
                        IF k \in DOMAIN file.doc THEN file.doc[k] ELSE defcfg[k]],
             aliased |-> DictKeys \ DOMAIN file.doc]

\* a save without the except clause: the IOError reaches the caller
save_config_uncaught(config, w) ==
    CASE file.kind = "nodir" ->
            [raised |-> "OSError", printed |-> FALSE, file |-> file]
      [] w = "ok" ->
            [raised |-> "none", printed |-> FALSE, file |-> FileDoc(config)]
      [] w = "openfail" ->
            [raised |-> "IOError", printed |-> FALSE, file |-> file]
      [] w = "writefail" ->
            [raised |-> "IOError", printed |-> FALSE, file |-> FileOf("badjson")]

\* save_config(config) when the write ends as w: "ok", "openfail" (open()
\* raises IOError), "writefail" (the file is opened, hence truncated, and
\* writing it raises IOError).  [raised, printed, file].
save_config(config, w) ==
    CASE file.kind = "nodir" ->
            [raised |-> "OSError", printed |-> FALSE, file |-> file]
      [] w = "ok" ->
            [raised |-> "none", printed |-> FALSE, file |-> FileDoc(config)]
      [] w = "openfail" ->
            [raised |-> "none", printed |-> TRUE, file |-> file]
      [] w = "writefail" ->
            [raised |-> "none", printed |-> TRUE, file |-> FileOf("badjson")]

WriteOutcomes == {"ok", "openfail", "writefail"}

\* ---------------------------------------------------------------- getters
\* Each getter loads the configuration and yields [raised, ret].

Returned(v) == [raised |-> "none", ret |-> v]
Raised(e) == [raised |-> e, ret |-> NoneVal]

\* os.environ.get(f"{provider.upper()}_API_KEY")
EnvKey(provider) == Get(env, provider, NoneVal)

get_provider_api_key(provider) ==
    LET c == load_config IN
    IF c.raised # "none" THEN Raised(c.raised)
    ELSE IF provider \in DOMAIN Get(c.doc, "api_keys", EmptyDict)
         THEN Returned(c.doc["api_keys"][provider])
         ELSE Returned(EnvKey(provider))

get_current_provider ==
    LET c == load_config IN
    IF c.raised # "none" THEN Raised(c.raised)
    ELSE Returned(Get(c.doc, "provider", "groq"))

get_model_for_provider(provider) ==
    LET c == load_config IN
    IF c.raised # "none" THEN Raised(c.raised)
    ELSE Returned(Get(Get(c.doc, "model_preferences", EmptyDict), provider, ""))

get_default_recent_commits ==
    LET c == load_config IN
    IF c.raised # "none" THEN Raised(c.raised)
    ELSE Returned(Get(Get(c.doc, "defaults", EmptyDict), "recent_commits", 5))

get_default_compare_branch ==
    LET c == load_config IN
    IF c.raised # "none" THEN Raised(c.raised)
    ELSE Returned(Get(Get(c.doc, "defaults", EmptyDict), "compare_branch", "main"))

get_default_output_format ==
    LET c == load_config IN
    IF c.raised # "none" THEN Raised(c.raised)
    ELSE Returned(Get(Get(c.doc, "defaults", EmptyDict), "output_format", "text"))

\* config.get_prompt_template(template_name)
get_prompt_template(template_name) ==
    LET c == load_config IN
    IF c.raised # "none" THEN Raised(c.raised)
    ELSE Returned(Get(Get(c.doc, "prompt_templates", EmptyDict), template_name,
                      defcfg["prompt_templates"]["default"]))

get_active_template_name ==
    LET c == load_config IN
    IF c.raised # "none" THEN Raised(c.raised)
    ELSE Returned(Get(Get(c.doc, "defaults", EmptyDict), "active_template", "default"))

\* ---------------------------------------------------------------- setters
\* Each setter is load_config(), one assignment, save_config(config).

\* config[top][key] = v; save_config(config).  When config[top] is the dict
\* of DEFAULT_CONFIG the assignment changes DEFAULT_CONFIG as well.
\* [raised, printed, file, defcfg]
SetNested(top, key, v, w) ==
    LET c == load_config IN
    IF c.raised # "none"
    THEN [raised |-> c.raised, printed |-> FALSE, file |-> file, defcfg |-> defcfg]
    ELSE LET config0 == IF top \in DOMAIN c.doc THEN c.doc ELSE Put(c.doc, top, EmptyDict)
             inner == Put(config0[top], key, v)
             config == Put(config0, top, inner)
             s == save_config(config, w)
         IN  [raised |-> s.raised, printed |-> s.printed, file |-> s.file,
              defcfg |-> IF top \in c.aliased THEN Put(defcfg, top, inner) ELSE defcfg]

\* config[key] = v; save_config(config)
SetTop(key, v, w) ==
    LET c == load_config IN
    IF c.raised # "none"
    THEN [raised |-> c.raised, printed |-> FALSE, file |-> file, defcfg |-> defcfg]
    ELSE LET s == save_config(Put(c.doc, key, v), w)
         IN  [raised |-> s.raised, printed |-> s.printed, file |-> s.file,
              defcfg |-> defcfg]

\* The step of a setter call: r is what SetNested or SetTop computed.
SetterStep(op, field, v, w, r) ==
    /\ calls < MaxCalls
    /\ calls' = calls + 1
    /\ file' = r.file
    /\ defcfg' = r.defcfg
    /\ out' = [op |-> op, field |-> field, raised |-> r.raised,
               printed |-> r.printed, w |-> w]
    /\ hist' = IF r.raised = "none" THEN Put(hist, field, v) ELSE hist
    /\ pristine' = (pristine /\ r.raised = "none" /\ ~r.printed)
    /\ UNCHANGED <<procs, env, summarizer, cli>>

set_provider_api_key(provider, api_key, w) ==
    SetterStep("set_provider_api_key", <<"api_keys", provider>>, api_key, w,
               SetNested("api_keys", provider, api_key, w))

set_current_provider(provider, w) ==
    SetterStep("set_current_provider", <<"provider">>, provider, w,
               SetTop("provider", provider, w))

set_model_for_provider(provider, model, w) ==
    SetterStep("set_model_for_provider", <<"model_preferences", provider>>, model, w,
               SetNested("model_preferences", provider, model, w))

set_default_recent_commits(count, w) ==
    SetterStep("set_default_recent_commits", <<"defaults", "recent_commits">>, count, w,
               SetNested("defaults", "recent_commits", count, w))

set_default_compare_branch(branch, w) ==
    SetterStep("set_default_compare_branch", <<"defaults", "compare_branch">>, branch, w,
               SetNested("defaults", "compare_branch", branch, w))

set_default_output_format(format, w) ==
    SetterStep("set_default_output_format", <<"defaults", "output_format">>, format, w,
               SetNested("defaults", "output_format", format, w))

set_prompt_template(template_name, template, w) ==
    SetterStep("set_prompt_template", <<"prompt_templates", template_name>>, template, w,
               SetNested("prompt_templates", template_name, template, w))

set_active_template(template_name, w) ==
    SetterStep("set_active_template", <<"defaults", "active_template">>, template_name, w,
               SetNested("defaults", "active_template", template_name, w))

\* ---------------------------------------------------------------- models/base.py

\* template.format(git_data=git_data): every replacement field must be
\* git_data (any other name raises KeyError); the data is inserted as it is.
RECURSIVE Substitute(_, _)
Substitute(template, git_data) ==
    IF template = <<>> THEN <<>>
    ELSE (IF Head(template).f = "lit" THEN <<Head(template).s>> ELSE git_data)
         \o Substitute(Tail(template), git_data)

format(template, git_data) ==
    IF \E i \in DOMAIN template : template[i].f = "field" /\ template[i].s # "git_data"
    THEN Raised("KeyError")
    ELSE Returned(Substitute(template, git_data))

\* a lookup without the special case of the name "default"
LLMProvider_get_prompt_template_by_name ==
    LET n == get_active_template_name IN
    IF n.raised # "none" THEN Raised(n.raised)
    ELSE LET t == get_prompt_template(n.ret) IN
         IF t.raised # "none" THEN Raised(t.raised)
         ELSE Returned(IF t.ret = <<>> THEN DEFAULT_TEMPLATE ELSE t.ret)

\* LLMProvider.get_prompt_template(): "x or y" is y when x is the empty string
LLMProvider_get_prompt_template ==
    LET n == get_active_template_name IN
    IF n.raised # "none" THEN Raised(n.raised)
    ELSE IF n.ret = "default" THEN Returned(DEFAULT_TEMPLATE)
    ELSE LET t == get_prompt_template(n.ret) IN
         IF t.raised # "none" THEN Raised(t.raised)
         ELSE Returned(IF t.ret = <<>> THEN DEFAULT_TEMPLATE ELSE t.ret)

\* LLMProvider.create_prompt(git_data)
create_prompt(git_data) ==
    LET t == LLMProvider_get_prompt_template IN
    IF t.raised # "none" THEN Raised(t.raised) ELSE format(t.ret, git_data)

\* ---------------------------------------------------------------- models/

\* Python truth value of a string or None, and "a or b"
Falsy(v) == v \in {NoneVal, ""}
Or(a, b) == IF Falsy(a) THEN b ELSE a

\* Each __init__ yields [raised, ret, msg, net]; ret is the provider object
\* and net the number of requests it sent (a constructor sends none).
Client(cls, api_key, model) ==
    [raised |-> "none", ret |-> [cls |-> cls, api_key |-> api_key, model |-> model],
     msg |-> "", net |-> 0]
InitError(msg) == [raised |-> "ModelError", ret |-> NoneVal, msg |-> msg, net |-> 0]

\* a constructor that forgets the credential check
GroqProvider_init_unchecked(api_key, model) ==
    Client("GroqProvider", api_key, Or(model, "llama-3.1-8b-instant"))

GroqProvider_init(api_key, model) ==
    IF Falsy(api_key) THEN InitError("Groq API key is required")
    ELSE Client("GroqProvider", api_key, Or(model, "llama-3.1-8b-instant"))

OpenAIProvider_init(api_key, model) ==
    IF Falsy(api_key) THEN InitError("OpenAI API key is required")
    ELSE Client("OpenAIProvider", api_key, Or(model, "gpt-4o"))

GeminiProvider_init(api_key, model) ==
    IF Falsy(api_key) THEN InitError("Google API key is required")
    ELSE Client("GeminiProvider", api_key, Or(model, "gemini-2.0-flash"))

\* the key is not kept: the local endpoint takes none
OllamaProvider_init(api_key, model) ==
    Client("OllamaProvider", NoneVal, Or(model, "llama3"))

PROVIDERS == {"groq", "openai", "gemini", "ollama"}

\* models.get_provider(provider_name, api_key, model)
get_provider(provider_name, api_key, model) ==
    IF provider_name \notin PROVIDERS
    THEN [raised |-> "ValueError", ret |-> NoneVal, msg |-> "Unknown provider", net |-> 0]
    ELSE CASE provider_name = "groq" -> GroqProvider_init(api_key, model)
           [] provider_name = "openai" -> OpenAIProvider_init(api_key, model)
           [] provider_name = "gemini" -> GeminiProvider_init(api_key, model)
           [] provider_name = "ollama" -> OllamaProvider_init(api_key, model)

\* What the endpoint does with the one request: answers with the expected
\* JSON, cannot be reached, answers with an error status, answers with a body
\* that is not JSON, or answers with JSON that lacks the expected fields.
NetOutcomes == {"ok", "ConnectionError", "HTTPError", "notjson", "nofields"}

ResponseText == <<"## Summary of the changes">>

\* <Provider>.generate(prompt): [raised, ret, msg, net]; net counts the calls
\* of requests.post.  The handler catches requests' RequestException, which
\* covers the transport, raise_for_status() and (requests 2.27 and later)
\* response.json(); the lookup result["choices"][0]... of a body without
\* those fields raises KeyError, which the handler does not catch.
generate(provider, prompt, n) ==
    CASE n = "ok" ->
            [raised |-> "none", ret |-> ResponseText, msg |-> "", net |-> 1]
      [] n \in {"ConnectionError", "HTTPError", "notjson"} ->
            [raised |-> "ModelError", ret |-> NoneVal, msg |-> "Error calling API", net |-> 1]
      [] n = "nofields" ->
            [raised |-> "KeyError", ret |-> NoneVal, msg |-> "choices", net |-> 1]

\* ---------------------------------------------------------------- summarizer.py

\* The History Reader as the orchestrator sees it: the text, or the GitError
\* that git_utils raises for a missing repository, branch or commit.
HistoryOutcomes == {"ok", "GitError"}

HistoryText(op) ==
    CASE op = "summarize_recent_commits" -> <<"abc1234 Add feature", "Author: John Doe">>
      [] op = "summarize_commit" -> <<"commit abc1234", "diff --git a/x b/x">>
      [] op = "compare_branches" -> <<"Number of commits ahead: 1", "def5678 Use {git_data}">>

history_read(op, h) ==
    IF h = "ok" THEN [raised |-> "none", ret |-> HistoryText(op), msg |-> ""]
    ELSE [raised |-> "GitError", ret |-> NoneVal, msg |-> "Not a git repository"]

NoSummarizer ==
    [made |-> FALSE, provider_name |-> NoneVal, api_key |-> NoneVal, model |-> NoneVal]

\* a constructor that looks the credential up under the active provider
Summarizer_init_active_key(provider_name, api_key, model) ==
    LET p == IF Falsy(provider_name) THEN get_current_provider ELSE Returned(provider_name)
        a == get_current_provider
    IN
    IF p.raised # "none" THEN Raised(p.raised)
    ELSE LET k == IF Falsy(api_key) THEN get_provider_api_key(a.ret) ELSE Returned(api_key)
             m == IF Falsy(model) THEN get_model_for_provider(p.ret) ELSE Returned(model)
         IN  IF k.raised # "none" THEN Raised(k.raised)
             ELSE IF m.raised # "none" THEN Raised(m.raised)
             ELSE Returned([made |-> TRUE, provider_name |-> p.ret, api_key |-> k.ret,
                            model |-> m.ret])

\* Summarizer.__init__(provider_name, api_key, model): [raised, ret]
Summarizer_init(provider_name, api_key, model) ==
    LET p == IF Falsy(provider_name) THEN get_current_provider ELSE Returned(provider_name)
    IN
    IF p.raised # "none" THEN Raised(p.raised)
    ELSE LET k == IF Falsy(api_key) THEN get_provider_api_key(p.ret) ELSE Returned(api_key)
             m == IF Falsy(model) THEN get_model_for_provider(p.ret) ELSE Returned(model)
         IN  IF k.raised # "none" THEN Raised(k.raised)
             ELSE IF m.raised # "none" THEN Raised(m.raised)
             ELSE Returned([made |-> TRUE, provider_name |-> p.ret, api_key |-> k.ret,
                            model |-> m.ret])

\* Summarizer._get_provider()
Summarizer_get_provider(self) == get_provider(self.provider_name, self.api_key, self.model)

ErrorPrefix == "Error generating summary: "

\* What a summarize operation did: [raised, ret, trace, net, prompt].
Done(raised, ret, trace, net, prompt) ==
    [raised |-> raised, ret |-> ret, trace |-> trace, net |-> net, prompt |-> prompt]

\* except (git_utils.GitError, ModelError) as e: return f"Error ...: {str(e)}"
Caught(e, msg, trace, net, prompt) ==
    IF e \in {"GitError", "ModelError"}
    THEN Done("none", <<ErrorPrefix, msg>>, trace, net, prompt)
    ELSE Done(e, NoneVal, trace, net, prompt)

\* a body that builds the client before it reads the history
summarize_client_first(self, op, h, n) ==
    LET c == Summarizer_get_provider(self) IN
    IF c.raised # "none" THEN Caught(c.raised, c.msg, <<"client">>, c.net, NoneVal)
    ELSE LET g == history_read(op, h) IN
    IF g.raised # "none" THEN Caught(g.raised, g.msg, <<"client", "history">>, 0, NoneVal)
    ELSE LET q == create_prompt(g.ret) IN
    IF q.raised # "none"
    THEN Caught(q.raised, "", <<"client", "history", "prompt">>, c.net, NoneVal)
    ELSE LET r == generate(c.ret, q.ret, n) IN
    IF r.raised # "none"
    THEN Caught(r.raised, r.msg, <<"client", "history", "prompt", "generate">>,
                c.net + r.net, q.ret)
    ELSE Done("none", r.ret, <<"client", "history", "prompt", "generate">>,
              c.net + r.net, q.ret)

\* a body that sends the request a second time when the first one failed
summarize_retrying(self, op, h, n) ==
    LET g == history_read(op, h) IN
    IF g.raised # "none" THEN Caught(g.raised, g.msg, <<"history">>, 0, NoneVal)
    ELSE LET c == Summarizer_get_provider(self) IN
    IF c.raised # "none" THEN Caught(c.raised, c.msg, <<"history", "client">>, c.net, NoneVal)
    ELSE LET q == create_prompt(g.ret) IN
    IF q.raised # "none"
    THEN Caught(q.raised, "", <<"history", "client", "prompt">>, c.net, NoneVal)
    ELSE LET r == generate(c.ret, q.ret, n) IN
    IF r.raised # "none"
    THEN Caught(r.raised, r.msg, <<"history", "client", "prompt", "generate", "generate">>,
                c.net + r.net + r.net, q.ret)
    ELSE Done("none", r.ret, <<"history", "client", "prompt", "generate">>,
              c.net + r.net, q.ret)

\* The body shared by summarize_recent_commits, summarize_commit and
\* compare_branches: history, then client, then prompt, then generate.
summarize(self, op, h, n) ==
    LET g == history_read(op, h) IN
    IF g.raised # "none" THEN Caught(g.raised, g.msg, <<"history">>, 0, NoneVal)
    ELSE LET c == Summarizer_get_provider(self) IN
    IF c.raised # "none" THEN Caught(c.raised, c.msg, <<"history", "client">>, c.net, NoneVal)
    ELSE LET q == create_prompt(g.ret) IN
    IF q.raised # "none"
    THEN Caught(q.raised, "", <<"history", "client", "prompt">>, c.net, NoneVal)
    ELSE LET r == generate(c.ret, q.ret, n) IN
    IF r.raised # "none"
    THEN Caught(r.raised, r.msg, <<"history", "client", "prompt", "generate">>,
                c.net + r.net, q.ret)
    ELSE Done("none", r.ret, <<"history", "client", "prompt", "generate">>,
              c.net + r.net, q.ret)

SummarizeOps == {"summarize_recent_commits", "summarize_commit", "compare_branches"}

\* ---------------------------------------------------------------- inputs

CustomTemplate == <<Lit("Custom summary for: "), Field("git_data")>>
NoFieldTemplate == <<Lit("Summarize the latest changes")>>
EmptyTemplate == <<>>

TemplateInputs ==
    {<<"default", CustomTemplate>>, <<"custom", CustomTemplate>>,
     <<"custom", NoFieldTemplate>>, <<"custom", EmptyTemplate>>}

ActiveInputs == {"default", "custom", "nonexistent"}
KeyInputs == {<<"groq", "gk">>, <<"openai", "ok">>}
ProviderInputs == {"ollama", "anthropic"}
ModelInputs == {<<"groq", "m1">>}
CountInputs == {3}
BranchInputs == {"dev"}
FormatInputs == {"json"}

\* history extracts; the second holds the placeholder's own text
GitData == {<<"abc1234 Add feature", "Author: John Doe">>, <<"def5678 Use {git_data}">>}

\* how the repository and the endpoint answer one summarize operation: the
\* endpoint matters only when the history was read
Worlds == {<<"GitError", "ok">>} \cup {<<"ok", n>> : n \in NetOutcomes}

\* arguments of get_provider and of Summarizer(...)
ClientNames == PROVIDERS \cup {"anthropic"}
ClientKeys == {NoneVal, "", "ck"}
OverrideProviders == {NoneVal, "openai"}
OverrideKeys == {NoneVal, "", "xk"}
OverrideModels == {NoneVal, "xm"}

\* prompts given to generate
Prompts == {<<"hello">>, <<"Custom summary for: ", "abc1234 Add feature">>}

\* arguments of the accessors by name
TemplateNames == {"default", "custom", "nonexistent"}
KeyProviders == {"groq", "openai", "gemini"}

EnvChoices == {EmptyDict, [p \in {"groq"} |-> "ek"]}

\* settings files a user (or another program) can leave behind
ProviderOnlyDoc == [k \in {"provider"} |-> "ollama"]

PartialDoc ==
    [k \in {"prompt_templates", "defaults"} |->
        IF k = "defaults" THEN [n \in {"active_template"} |-> "mine"]
        ELSE [n \in {"default"} |-> NoFieldTemplate]]

ExternalFiles ==
    {FileOf("absent"), FileOf("nodir"), FileOf("unreadable"), FileOf("binary"),
     FileOf("badjson"), FileOf("nonobject"), FileDoc(ProviderOnlyDoc), FileDoc(PartialDoc)}

\* ---------------------------------------------------------------- actions

\* The file is removed, replaced or edited from outside the process.
External(f) ==
    /\ calls < MaxCalls
    /\ calls' = calls + 1
    /\ f # file
    /\ file' = f
    /\ out' = [op |-> "external", raised |-> "none"]
    /\ pristine' = FALSE
    /\ UNCHANGED <<procs, defcfg, env, summarizer, hist, cli>>

\* The process ends and a new one starts: the module is imported afresh.
Restart(e) ==
    /\ calls < MaxCalls
    /\ calls' = calls + 1
    /\ defcfg' = DEFAULT_CONFIG
    /\ env' = e
    /\ summarizer' = NoSummarizer
    /\ out' = [op |-> "start", raised |-> "none"]
    /\ UNCHANGED <<procs, file, hist, pristine, cli>>

\* A call of load_config()
LoadConfig ==
    /\ calls < MaxCalls
    /\ calls' = calls + 1
    /\ out' = [op |-> "load_config", raised |-> load_config.raised,
               ret |-> load_config.doc]
    /\ UNCHANGED <<procs, file, defcfg, env, summarizer, hist, pristine, cli>>

\* A call of config.get_prompt_template(template_name)
GetPromptTemplate(template_name) ==
    /\ calls < MaxCalls
    /\ calls' = calls + 1
    /\ LET r == get_prompt_template(template_name) IN
       out' = [op |-> "get_prompt_template", raised |-> r.raised, ret |-> r.ret,
               template_name |-> template_name]
    /\ UNCHANGED <<procs, file, defcfg, env, summarizer, hist, pristine, cli>>

\* A call of config.get_provider_api_key(provider)
GetProviderApiKey(provider) ==
    /\ calls < MaxCalls
    /\ calls' = calls + 1
    /\ LET r == get_provider_api_key(provider) IN
       out' = [op |-> "get_provider_api_key", raised |-> r.raised, ret |-> r.ret,
               provider |-> provider]
    /\ UNCHANGED <<procs, file, defcfg, env, summarizer, hist, pristine, cli>>

\* A call of provider.create_prompt(git_data)
CreatePrompt(git_data) ==
    /\ calls < MaxCalls
    /\ calls' = calls + 1
    /\ LET r == create_prompt(git_data) IN
       out' = [op |-> "create_prompt", raised |-> r.raised, ret |-> r.ret,
               git_data |-> git_data]
    /\ UNCHANGED <<procs, file, defcfg, env, summarizer, hist, pristine, cli>>

\* A call of models.get_provider(provider_name, api_key, model)
GetProvider(provider_name, api_key, model) ==
    /\ calls < MaxCalls
    /\ calls' = calls + 1
    /\ LET r == get_provider(provider_name, api_key, model) IN
       out' = [op |-> "get_provider", raised |-> r.raised, ret |-> r.ret,
               provider_name |-> provider_name, api_key |-> api_key, net |-> r.net]
    /\ UNCHANGED <<procs, file, defcfg, env, summarizer, hist, pristine, cli>>

\* provider.generate(prompt), provider being the client that the call of
\* get_provider before it returned, and the endpoint answering as n
Generate(prompt, n) ==
    /\ calls < MaxCalls
    /\ calls' = calls + 1
    /\ out.op = "get_provider"
    /\ out.raised = "none"
    /\ LET r == generate(out.ret, prompt, n) IN
       out' = [op |-> "generate", raised |-> r.raised, ret |-> r.ret,
               provider |-> out.ret, prompt |-> prompt, n |-> n, net |-> r.net]
    /\ UNCHANGED <<procs, file, defcfg, env, summarizer, hist, pristine, cli>>

\* a constructor that stores the provider it was given as the active one
NewSummarizer_storing(provider_name, api_key, model) ==
    /\ calls < MaxCalls
    /\ calls' = calls + 1
    /\ LET r == Summarizer_init(provider_name, api_key, model)
           s == SetTop("provider", provider_name, "ok")
       IN
       /\ summarizer' = IF r.raised = "none" THEN r.ret ELSE summarizer
       /\ file' = IF Falsy(provider_name) THEN file ELSE s.file
       /\ out' = [op |-> "Summarizer", raised |-> r.raised,
                  provider_name |-> provider_name, api_key |-> api_key, model |-> model]
    /\ UNCHANGED <<procs, defcfg, env, hist, pristine, cli>>

\* summarizer = Summarizer(provider_name, api_key, model)
NewSummarizer(provider_name, api_key, model) ==
    /\ calls < MaxCalls
    /\ calls' = calls + 1
    /\ LET r == Summarizer_init(provider_name, api_key, model) IN
       /\ summarizer' = IF r.raised = "none" THEN r.ret ELSE summarizer
       /\ out' = [op |-> "Summarizer", raised |-> r.raised,
                  provider_name |-> provider_name, api_key |-> api_key, model |-> model]
    /\ UNCHANGED <<procs, file, defcfg, env, hist, pristine, cli>>

\* summarizer.<op>(...), the History Reader ending as h and the endpoint as n
Summarize(op, h, n) ==
    /\ calls < MaxCalls
    /\ calls' = calls + 1
    /\ summarizer.made
    /\ LET r == summarize(summarizer, op, h, n) IN
       out' = [op |-> op, raised |-> r.raised, ret |-> r.ret, trace |-> r.trace,
               net |-> r.net, prompt |-> r.prompt, h |-> h, n |-> n]
    /\ UNCHANGED <<procs, file, defcfg, env, summarizer, hist, pristine, cli>>

\* ---------------------------------------------------------------- setters in two processes

\* Two gitsumm processes that run a setter at the same time.  A setter is
\* config = load_config(); config[...] = v; save_config(config): between the
\* load and the save the process holds the document in its own memory, and
\* nothing locks the file.  Each process is a fresh interpreter, with its own
\* untouched DEFAULT_CONFIG.
Procs == {"A", "B"}

\* [pc, field, v, config, missed]: pc is "idle" or "loaded"; field and v are
\* what the setter assigns; config is the document it holds; missed is the
\* set of <<field, value>> that other processes saved since it loaded.
Idle == [pc |-> "idle", field |-> <<>>, v |-> "", config |-> EmptyDict, missed |-> {}]

\* the settings the setters of the two processes assign: set_current_provider,
\* set_provider_api_key, set_default_output_format
RaceSetters ==
    {<<<<"provider">>, "openai">>, <<<<"api_keys", "groq">>, "gk">>,
     <<<<"defaults", "output_format">>, "json">>}

\* config[field[1]] = v, or config[field[1]][field[2]] = v
Assign(config, field, v) ==
    IF Len(field) = 1 THEN Put(config, field[1], v)
    ELSE LET config0 == IF field[1] \in DOMAIN config THEN config
                        ELSE Put(config, field[1], EmptyDict)
         IN  Put(config0, field[1], Put(config0[field[1]], field[2], v))

\* the value of a field in a document, NoneVal when it has none
Lookup(config, field) ==
    IF Len(field) = 1 THEN Get(config, field[1], NoneVal)
    ELSE Get(Get(config, field[1], EmptyDict), field[2], NoneVal)

\* the first two statements of a setter in process p: load, assign
SetterLoad(p, field, v) ==
    /\ calls < MaxCalls
    /\ calls' = calls + 1
    /\ procs[p].pc = "idle"
    /\ LET c == load_config IN
       /\ procs' = IF c.raised # "none" THEN procs
                   ELSE [procs EXCEPT ![p] = [pc |-> "loaded", field |-> field, v |-> v,
                                              config |-> Assign(c.doc, field, v),
                                              missed |-> {}]]
       /\ out' = [op |-> "setter_load", proc |-> p, raised |-> c.raised]
    /\ UNCHANGED <<file, defcfg, env, summarizer, hist, pristine, cli>>

\* what the other processes miss when p has saved
AfterSave(p, saved) ==
    [q \in Procs |->
        IF q = p THEN Idle
        ELSE IF saved /\ procs[q].pc = "loaded"
        THEN [procs[q] EXCEPT !.missed = @ \cup {<<procs[p].field, procs[p].v>>}]
        ELSE procs[q]]

\* a save that loads the file again and assigns its one field to that
SetterSave_reloading(p, w) ==
    /\ procs[p].pc = "loaded"
    /\ LET c == load_config
           s == save_config(Assign(c.doc, procs[p].field, procs[p].v), w)
       IN  /\ c.raised = "none"
           /\ file' = s.file
           /\ procs' = AfterSave(p, s.raised = "none" /\ ~s.printed)
           /\ out' = [op |-> "setter_save", proc |-> p, raised |-> s.raised,
                      printed |-> s.printed, field |-> procs[p].field,
                      missed |-> procs[p].missed]
    /\ pristine' = FALSE
    /\ UNCHANGED <<defcfg, env, summarizer, hist, calls, cli>>

\* the last statement of a setter in process p: save_config(config), the
\* write ending as w; the process ends
SetterSave(p, w) ==
    /\ procs[p].pc = "loaded"
    /\ LET s == save_config(procs[p].config, w) IN
       /\ file' = s.file
       /\ procs' = AfterSave(p, s.raised = "none" /\ ~s.printed)
       /\ out' = [op |-> "setter_save", proc |-> p, raised |-> s.raised,
                  printed |-> s.printed, field |-> procs[p].field,
                  missed |-> procs[p].missed]
    /\ pristine' = FALSE
    /\ UNCHANGED <<defcfg, env, summarizer, hist, calls, cli>>

\* ---------------------------------------------------------------- git_utils.py

\* A text is a sequence of characters.  A commit has its hexsha, the first
\* line of its message, its author, the day it was authored and the files it
\* changed.  A repository, as git_utils sees it, is: whether the working
\* directory is inside one, the names of its local branches, and the commits
\* that a traversal yields, most recent first.
Commit1 ==
    [hexsha |-> <<"d", "e", "f", "5", "6", "7", "8", "9", "0">>, subject |-> "Fix bug",
     author |-> "Jane Roe", day |-> <<2024, 1, 20>>,
     files |-> <<[path |-> "a.py", insertions |-> 1, deletions |-> 0],
                 [path |-> "b.py", insertions |-> 2, deletions |-> 1]>>]

Commit2 ==
    [hexsha |-> <<"a", "b", "c", "1", "2", "3", "4", "5", "6">>, subject |-> "Add feature",
     author |-> "John Doe", day |-> <<2024, 1, 10>>,
     files |-> <<[path |-> "a.py", insertions |-> 3, deletions |-> 1]>>]

NoRepo == [isrepo |-> FALSE, branches |-> {}, commits |-> <<>>]
EmptyRepo == [isrepo |-> TRUE, branches |-> {}, commits |-> <<>>]
MainRepo == [isrepo |-> TRUE, branches |-> {"main"}, commits |-> <<Commit1, Commit2>>]
TwoBranchRepo ==
    [isrepo |-> TRUE, branches |-> {"main", "feature"}, commits |-> <<Commit1, Commit2>>]

Repos == {NoRepo, EmptyRepo, MainRepo, TwoBranchRepo}

\* What a function of git_utils did: [raised, msg, ret, queries].  queries
\* lists the queries it sent to the repository: "iter_commits" (a commit
\* traversal), "stats", "merge_base", "diff".
GitDone(ret, queries) == [raised |-> "none", msg |-> <<>>, ret |-> ret, queries |-> queries]
GitFailed(msg, queries) ==
    [raised |-> "GitError", msg |-> msg, ret |-> NoneVal, queries |-> queries]

\* get_repo(): GitError outside a repository
NotARepositoryError == GitFailed(<<"Not a git repository (or any parent directories)">>, <<>>)

\* "s" unless the number is 1
Plural(n) == IF n = 1 THEN "" ELSE "s"

RECURSIVE Sum(_, _)
Sum(files, field) ==
    IF files = <<>> THEN 0 ELSE files[1][field] + Sum(Tail(files), field)

\* a traversal that ignores max_count
Take_unlimited(seq, n) == seq

\* the first n elements of a sequence; all of them when n is negative
\* (git takes --max-count=-1 as no limit)
Take(seq, n) == IF n < 0 \/ n >= Len(seq) THEN seq ELSE SubSeq(seq, 1, n)

\* the block of one commit in get_commit_log: hash and subject, author,
\* one line per file, the totals
LogBlock(commit) ==
    <<[kind |-> "commit", short_hash |-> SubSeq(commit.hexsha, 1, 7),
       first_line |-> commit.subject],
      [kind |-> "author", name |-> commit.author],
      [kind |-> "date", day |-> commit.day]>>
    \o [i \in 1..Len(commit.files) |->
          [kind |-> "file", path |-> commit.files[i].path,
           insertions |-> commit.files[i].insertions,
           insertion_s |-> Plural(commit.files[i].insertions),
           deletions |-> commit.files[i].deletions,
           deletion_s |-> Plural(commit.files[i].deletions)]]
    \o <<[kind |-> "total", files |-> Len(commit.files),
          file_s |-> Plural(Len(commit.files)),
          insertions |-> Sum(commit.files, "insertions"),
          insertion_s |-> Plural(Sum(commit.files, "insertions")),
          deletions |-> Sum(commit.files, "deletions"),
          deletion_s |-> Plural(Sum(commit.files, "deletions"))]>>

RECURSIVE LogBlocks(_)
LogBlocks(commits) ==
    IF commits = <<>> THEN <<>> ELSE LogBlock(commits[1]) \o LogBlocks(Tail(commits))

\* one "stats" query per commit rendered
StatsQueries(commits) == [i \in 1..Len(commits) |-> "stats"]

\* a get_commit_log that traverses the commits without resolving the branch
get_commit_log_unresolved(repo, num_commits, branch) ==
    IF ~repo.isrepo THEN NotARepositoryError
    ELSE IF ~Falsy(branch) /\ branch \notin repo.branches
    THEN GitFailed(<<"Git command error">>, <<"iter_commits">>)
    ELSE LET commits == Take(repo.commits, num_commits) IN
         GitDone(LogBlocks(commits), <<"iter_commits">> \o StatsQueries(commits))

\* get_commit_log(num_commits, branch)
get_commit_log(repo, num_commits, branch) ==
    IF ~repo.isrepo THEN NotARepositoryError
    ELSE IF ~Falsy(branch) /\ branch \notin repo.branches
    THEN GitFailed(<<"Branch not found", branch>>, <<>>)
    ELSE LET commits == Take(repo.commits, num_commits) IN
         GitDone(LogBlocks(commits), <<"iter_commits">> \o StatsQueries(commits))

\* the commits of compare_branch that base_branch does not have
Ahead(repo, base_branch, compare_branch) ==
    IF base_branch = compare_branch THEN <<>> ELSE Take(repo.commits, 1)

RECURSIVE ShortLines(_)
ShortLines(commits) ==
    IF commits = <<>> THEN <<>>
    ELSE <<[kind |-> "commit", short_hash |-> SubSeq(commits[1].hexsha, 1, 7),
            first_line |-> commits[1].subject]>> \o ShortLines(Tail(commits))

\* compare_branches(base_branch, compare_branch)
git_compare_branches(repo, base_branch, compare_branch) ==
    IF ~repo.isrepo THEN NotARepositoryError
    ELSE IF base_branch \notin repo.branches
    THEN GitFailed(<<"Branch not found", base_branch>>, <<>>)
    ELSE IF compare_branch \notin repo.branches
    THEN GitFailed(<<"Branch not found", compare_branch>>, <<>>)
    ELSE LET commits == Ahead(repo, base_branch, compare_branch) IN
         GitDone(<<[kind |-> "title", base_branch |-> base_branch,
                    compare_branch |-> compare_branch],
                   [kind |-> "ahead", count |-> Len(commits)]>>
                 \o ShortLines(commits) \o <<[kind |-> "diffstat"]>>,
                 <<"merge_base", "iter_commits", "diff">>)

\* ----- datetime.strptime(text, '%Y-%m-%d')

DigitChars == <<"0", "1", "2", "3", "4", "5", "6", "7", "8", "9">>
IsDigit(c) == \E i \in DOMAIN DigitChars : DigitChars[i] = c
DigitValue(c) == (CHOOSE i \in DOMAIN DigitChars : DigitChars[i] = c) - 1
AllDigits(text) == \A i \in DOMAIN text : IsDigit(text[i])

RECURSIVE Number(_)
Number(text) ==
    IF text = <<>> THEN 0
    ELSE 10 * Number(SubSeq(text, 1, Len(text) - 1)) + DigitValue(text[Len(text)])

IsLeap(y) == (y % 4 = 0 /\ y % 100 # 0) \/ y % 400 = 0

DaysIn(y, m) ==
    IF m = 2 THEN (IF IsLeap(y) THEN 29 ELSE 28)
    ELSE IF m \in {4, 6, 9, 11} THEN 30 ELSE 31

\* the directive %m or %d: one or two digits, not "0" or "00"; %d also
\* takes a blank before a single digit
MatchesField(text, blank) ==
    \/ Len(text) \in {1, 2} /\ AllDigits(text) /\ Number(text) > 0
    \/ blank /\ Len(text) = 2 /\ text[1] = " " /\ IsDigit(text[2]) /\ text[2] # "0"

FieldValue(text) == IF text[1] = " " THEN DigitValue(text[2]) ELSE Number(text)

\* the place of the second "-": the month is what stands before it
SecondDash(text) ==
    IF Len(text) >= 7 /\ text[7] = "-" THEN 7
    ELSE IF Len(text) >= 8 /\ text[8] = "-" THEN 8 ELSE 0

\* a validation that lets every text through
strptime_any(text) == [ok |-> TRUE, date |-> <<2024, 1, 1>>]

\* strptime: %Y is exactly four digits; the whole text must be consumed; the
\* numbers must name a day of the calendar (the year 0 does not exist).
\* [ok, date]
strptime(text) ==
    LET j == SecondDash(text)
        Y == SubSeq(text, 1, 4)
        m == SubSeq(text, 6, j - 1)
        d == SubSeq(text, j + 1, Len(text))
        bad == [ok |-> FALSE, date |-> <<0, 0, 0>>]
    IN
    IF Len(text) < 8 \/ ~AllDigits(Y) \/ text[5] # "-" \/ j = 0 THEN bad
    ELSE IF ~MatchesField(m, FALSE) \/ ~MatchesField(d, TRUE) THEN bad
    ELSE IF Number(Y) < 1 \/ FieldValue(m) > 12 \/ FieldValue(d) > DaysIn(Number(Y), FieldValue(m))
    THEN bad
    ELSE [ok |-> TRUE, date |-> <<Number(Y), FieldValue(m), FieldValue(d)>>]

\* day a is not after day b
NotAfter(a, b) ==
    \/ a[1] < b[1]
    \/ a[1] = b[1] /\ a[2] < b[2]
    \/ a[1] = b[1] /\ a[2] = b[2] /\ a[3] <= b[3]

\* the commits authored from since to until
InRange(commits, since, until) ==
    SelectSeq(commits, LAMBDA c : NotAfter(since, c.day) /\ NotAfter(c.day, until))

RECURSIVE RangeBlocks(_)
RangeBlocks(commits) ==
    IF commits = <<>> THEN <<>>
    ELSE <<[kind |-> "commit", short_hash |-> SubSeq(commits[1].hexsha, 1, 7),
            first_line |-> commits[1].subject],
           [kind |-> "author", name |-> commits[1].author],
           [kind |-> "date", day |-> commits[1].day]>> \o RangeBlocks(Tail(commits))

\* get_commits_in_time_range(start_date, end_date, branch): the repository
\* is opened, both dates are validated, then the commits are traversed
get_commits_in_time_range(repo, start_date, end_date, branch) ==
    LET s == strptime(start_date)
        e == strptime(end_date)
        commits == InRange(repo.commits, s.date, e.date)
    IN
    IF ~repo.isrepo THEN NotARepositoryError
    ELSE IF ~s.ok \/ ~e.ok THEN GitFailed(<<"Invalid date format">>, <<>>)
    ELSE IF ~Falsy(branch) /\ branch \notin repo.branches
    THEN GitFailed(<<"Git command error">>, <<"iter_commits">>)
    ELSE IF commits = <<>>
    THEN GitDone(<<[kind |-> "none found", start_date |-> start_date, end_date |-> end_date]>>,
                 <<"iter_commits">>)
    ELSE GitDone(<<[kind |-> "title", start_date |-> start_date, end_date |-> end_date]>>
                 \o RangeBlocks(commits), <<"iter_commits">>)

\* texts given as dates
Text10(a, b, c, d, e, f, g, h, i, j) == <<a, b, c, d, e, f, g, h, i, j>>

DateInputs ==
    {Text10("2", "0", "2", "4", "-", "0", "1", "-", "0", "1"),
     Text10("2", "0", "2", "4", "-", "0", "1", "-", "3", "1"),
     Text10("2", "0", "2", "4", "-", "0", "2", "-", "2", "9"),
     Text10("2", "0", "2", "3", "-", "0", "2", "-", "2", "9"),
     Text10("2", "0", "2", "4", "-", "1", "3", "-", "0", "1"),
     Text10("2", "0", "2", "4", "-", "0", "4", "-", "3", "1"),
     Text10("0", "0", "0", "0", "-", "0", "1", "-", "0", "1"),
     Text10("3", "1", "/", "0", "1", "/", "2", "0", "2", "4"),
     Text10("2", "0", "2", "4", "-", "0", "1", "-", " ", "5"),
     <<"2", "0", "2", "4", "-", "1", "-", "5">>,
     <<"2", "0", "2", "4", "-", "0", "1", "-", "3", "1", "T">>,
     <<"t", "o", "d", "a", "y">>,
     <<>>}

\* a date that is as its format asks, and the pairs of texts given as the
\* start and the end of a range: at least one of the two is that date, or
\* both are the same text
GoodDate == Text10("2", "0", "2", "4", "-", "0", "1", "-", "0", "1")

DatePairs ==
    {<<GoodDate, e>> : e \in DateInputs} \cup {<<s, GoodDate>> : s \in DateInputs}
    \cup {<<s, s>> : s \in DateInputs}

\* ---- get_commit_details

\* the number of lines of a blob that get_commit_details shows
PreviewLines == 5

\* One entry of commit.diff(...): the two paths and, for each side, whether
\* the blob exists and the lines of its content.  A file the commit added or
\* deleted has a blob on one side only.
Diff(a_path, a_blob, a_lines, b_blob, b_lines) ==
    [a_path |-> a_path, b_path |-> a_path, a_blob |-> a_blob, a_lines |-> a_lines,
     b_blob |-> b_blob, b_lines |-> b_lines]

\* lines[:5] rendered with a sign, then "..." when there are more (side
\* records which of the two markers it is; the text is "..." for both)
Preview(sign, lines) ==
    [i \in 1..(IF Len(lines) < PreviewLines THEN Len(lines) ELSE PreviewLines) |->
        [kind |-> sign, line |-> lines[i]]]
    \o (IF Len(lines) > PreviewLines THEN <<[kind |-> "...", side |-> sign]>> ELSE <<>>)

\* what the loop appends for one diff: the header and, when both blobs
\* exist, the two file names and the two previews
DiffBlock(diff) ==
    <<[kind |-> "diff --git", a_path |-> diff.a_path, b_path |-> diff.b_path]>>
    \o (IF diff.a_blob /\ diff.b_blob
        THEN <<[kind |-> "---", a_path |-> diff.a_path],
               [kind |-> "+++", b_path |-> diff.b_path]>>
             \o Preview("-", diff.a_lines) \o Preview("+", diff.b_lines)
        ELSE <<>>)

RECURSIVE DiffBlocks(_)
DiffBlocks(diffs) ==
    IF diffs = <<>> THEN <<>> ELSE DiffBlock(diffs[1]) \o DiffBlocks(Tail(diffs))

\* a is the beginning of b
IsPrefix(a, b) == Len(a) <= Len(b) /\ SubSeq(b, 1, Len(a)) = a

\* repo.commit(commit_hash): the commits the name resolves to
Resolve(repo, commit_hash) ==
    SelectSeq(repo.commits, LAMBDA c : commit_hash # <<>> /\ IsPrefix(commit_hash, c.hexsha))

\* get_commit_details(commit_hash), diffs being what commit.diff(...) yields.
\* A name that resolves to no commit is taken to fail with the ValueError
\* the function catches.
get_commit_details(repo, commit_hash, diffs) ==
    LET found == Resolve(repo, commit_hash) IN
    IF ~repo.isrepo THEN NotARepositoryError
    ELSE IF found = <<>>
    THEN GitFailed(<<"Error getting commit details">>, <<"commit">>)
    ELSE GitDone(<<[kind |-> "commit", hexsha |-> found[1].hexsha],
                   [kind |-> "author", name |-> found[1].author],
                   [kind |-> "date", day |-> found[1].day],
                   [kind |-> "message", message |-> found[1].subject]>>
                 \o DiffBlocks(diffs),
                 <<"commit", "diff">>)

\* contents of 0, 2, 5, 6 and 7 lines (a line is named by its number)
Contents == {[i \in 1..n |-> i] : n \in {0, 2, 5, 6, 7}}

\* a modified file, an added file and a deleted file
DiffInputs ==
    {Diff("a.py", TRUE, a, TRUE, b) : a \in Contents, b \in Contents}
    \cup {Diff("a.py", FALSE, <<>>, TRUE, b) : b \in {[i \in 1..2 |-> i], [i \in 1..6 |-> i]}}
    \cup {Diff("a.py", TRUE, a, FALSE, <<>>) : a \in {[i \in 1..2 |-> i], [i \in 1..6 |-> i]}}

\* commits that change no path, one path, two paths
DiffLists ==
    {<<>>} \cup {<<d>> : d \in DiffInputs}
    \cup {<<d, Diff("b.py", TRUE, <<1, 2, 3>>, TRUE, <<1, 2, 3, 4, 5, 6>>)>> : d \in DiffInputs}

CommitHashes == {SubSeq(Commit1.hexsha, 1, 7), Commit2.hexsha, <<"0", "0", "0">>}

BranchNames == {NoneVal, "main", "feature", "nosuch"}
CommitCounts == {-1, 0, 1, 5}

\* A call of git_utils.get_commit_log in repository repo
GetCommitLog(repo, num_commits, branch) ==
    /\ calls < MaxCalls
    /\ calls' = calls + 1
    /\ LET r == get_commit_log(repo, num_commits, branch) IN
       out' = [op |-> "get_commit_log", repo |-> repo, num_commits |-> num_commits,
               branch |-> branch, raised |-> r.raised, msg |-> r.msg, ret |-> r.ret,
               queries |-> r.queries]
    /\ UNCHANGED <<procs, file, defcfg, env, summarizer, hist, pristine, cli>>

\* A call of git_utils.compare_branches in repository repo
GitCompareBranches(repo, base_branch, compare_branch) ==
    /\ calls < MaxCalls
    /\ calls' = calls + 1
    /\ LET r == git_compare_branches(repo, base_branch, compare_branch) IN
       out' = [op |-> "git_compare_branches", repo |-> repo, base_branch |-> base_branch,
               compare_branch |-> compare_branch, raised |-> r.raised, msg |-> r.msg,
               ret |-> r.ret, queries |-> r.queries]
    /\ UNCHANGED <<procs, file, defcfg, env, summarizer, hist, pristine, cli>>

\* A call of git_utils.get_commits_in_time_range in repository repo
GetCommitsInTimeRange(repo, start_date, end_date, branch) ==
    /\ calls < MaxCalls
    /\ calls' = calls + 1
    /\ LET r == get_commits_in_time_range(repo, start_date, end_date, branch) IN
       out' = [op |-> "get_commits_in_time_range", repo |-> repo,
               start_date |-> start_date, end_date |-> end_date, branch |-> branch,
               raised |-> r.raised, msg |-> r.msg, ret |-> r.ret, queries |-> r.queries]
    /\ UNCHANGED <<procs, file, defcfg, env, summarizer, hist, pristine, cli>>

\* A call of git_utils.get_commit_details in repository repo
GetCommitDetails(repo, commit_hash, diffs) ==
    /\ calls < MaxCalls
    /\ calls' = calls + 1
    /\ LET r == get_commit_details(repo, commit_hash, diffs) IN
       out' = [op |-> "get_commit_details", repo |-> repo, commit_hash |-> commit_hash,
               diffs |-> diffs, raised |-> r.raised, msg |-> r.msg, ret |-> r.ret,
               queries |-> r.queries]
    /\ UNCHANGED <<procs, file, defcfg, env, summarizer, hist, pristine, cli>>

\* ---------------------------------------------------------------- cli.py

\* The gitsumm command being run.  pc is "idle" before the first command,
\* "main" when the process has started, "done" when it has ended (exit is
\* then its exit code) and, inside setup and defaults, the statement reached.
\* console lists what was printed, trace the functions called, choices the
\* provider names that setup offered, provider the one that setup took,
\* count the number of commits that recent asked the Summarizer for (given
\* is FALSE as long as it has asked for none).
NoCommand ==
    [pc |-> "idle", args |-> [command |-> NoneVal], inrepo |-> TRUE, console |-> <<>>,
     trace |-> <<>>, exit |-> 0, choices |-> {}, provider |-> NoneVal,
     count |-> [given |-> FALSE, value |-> 0]]

Begin(args, inrepo) == [NoCommand EXCEPT !.pc = "main", !.args = args, !.inrepo = inrepo]

\* console.print(...), a call, the end of the process
Say(c, msg) == [c EXCEPT !.console = Append(@, msg)]
Call(c, f) == [c EXCEPT !.trace = Append(@, f)]
End(c, code) == [c EXCEPT !.pc = "done", !.exit = code]

\* an exception that nothing catches: the traceback is printed, the exit code is 1
Uncaught(c, e) == End(Say(c, <<"Traceback", e>>), 1)

\* save_config's own message when the write failed
SayIfPrinted(c, r) ==
    IF r.printed THEN Say(c, <<"Error saving configuration">>) ELSE c

RepoCommands == {"recent", "commit", "compare", "time"}

\* what main() prints when get_repo() raised
NotARepository == <<"Error:", "Not a git repository (or any parent directories)">>

\* a main() that goes to the dispatch without looking for the repository
main_prelude_no_check(c) ==
    IF load_config.raised # "none" THEN Uncaught(c, load_config.raised) ELSE c

\* main() up to the dispatch.  Building the parser reads the settings for the
\* defaults and the help texts; then, for the commands that need a
\* repository, get_repo() is called and its failure printed before sys.exit(1).
main_prelude(c) ==
    IF load_config.raised # "none" THEN Uncaught(c, load_config.raised)
    ELSE IF c.args.command \notin RepoCommands THEN c
    ELSE IF c.inrepo THEN Call(c, "get_repo")
    ELSE End(Say(Call(c, "get_repo"), NotARepository), 1)

\* one step of a command: the new value of cli, of the file, of DEFAULT_CONFIG
Step(c, f, d) ==
    /\ cli' = c
    /\ file' = f
    /\ defcfg' = d
    /\ UNCHANGED <<procs, env, summarizer, out, hist, pristine, calls>>

\* a step that wrote nothing
ReadStep(c) == Step(c, file, defcfg)

\* The process starts: the modules are imported, main() is entered.
Start(args, inrepo, e) ==
    /\ calls < MaxCommands
    /\ calls' = calls + 1
    /\ cli.pc \in {"idle", "done"}
    /\ cli' = Begin(args, inrepo)
    /\ defcfg' = DEFAULT_CONFIG
    /\ env' = e
    /\ summarizer' = NoSummarizer
    /\ UNCHANGED <<procs, file, out, hist, pristine>>

\* the methods of the class Summarizer
SummarizerMethods == SummarizeOps

HandlerOf(command) ==
    CASE command = "recent" -> "recent_command"
      [] command = "commit" -> "commit_command"
      [] command = "compare" -> "compare_command"
      [] command = "time" -> "time_range_command"

MethodOf(command) ==
    CASE command = "recent" -> "summarize_recent_commits"
      [] command = "commit" -> "summarize_commit"
      [] command = "compare" -> "compare_branches"
      [] command = "time" -> "summarize_time_range"

\* recent_command, commit_command, compare_command and time_range_command:
\* Summarizer(), then the method of the command, then the panel.  A method
\* that the class does not have raises AttributeError.  args.num of recent
\* is the number given with -n, else the default that the parser took from
\* get_default_recent_commits().
summary_command(c, h, n) ==
    LET s == Summarizer_init(NoneVal, NoneVal, NoneVal)
        op == MethodOf(c.args.command)
        c1 == Call(Call(c, HandlerOf(c.args.command)), "Summarizer")
    IN
    IF s.raised # "none" THEN Uncaught(c1, s.raised)
    ELSE IF op \notin SummarizerMethods THEN Uncaught(c1, "AttributeError")
    ELSE LET r == summarize(s.ret, op, h, n)
             num == IF c.args.num.given THEN c.args.num.value
                    ELSE get_default_recent_commits.ret
             c2 == IF c.args.command = "recent"
                   THEN [Call(c1, op) EXCEPT !.count = [given |-> TRUE, value |-> num]]
                   ELSE Call(c1, op)
         IN  IF r.raised # "none" THEN Uncaught(c2, r.raised)
             ELSE End(Say(c2, <<"Panel">> \o r.ret), 0)

\* main() for recent, commit, compare and time
SummaryCommand(h, n) ==
    /\ cli.pc = "main"
    /\ cli.args.command \in RepoCommands
    /\ LET c == main_prelude(cli) IN
       ReadStep(IF c.pc = "done" THEN c ELSE summary_command(c, h, n))

\* provider_command(args) when a provider is named and registered: it is
\* stored, and the credential is looked up afterwards
provider_command_set(c, w) ==
    \E provider \in {c.args.provider} :
    LET r == SetTop("provider", provider, w)
        k == get_provider_api_key(provider)'
        c1 == Say(SayIfPrinted(Call(c, "set_current_provider"), r),
                  <<"Provider set to", provider>>)
    IN
    /\ file' = r.file
    /\ defcfg' = r.defcfg
    /\ UNCHANGED <<procs, env, summarizer, out, hist, pristine, calls>>
    /\ cli' = IF r.raised # "none" THEN Uncaught(Call(c, "set_current_provider"), r.raised)
              ELSE IF provider = "ollama" THEN End(c1, 0)
              ELSE IF k.raised # "none" THEN Uncaught(c1, k.raised)
              ELSE IF Falsy(k.ret) THEN End(Say(c1, <<"No API key found for this provider">>), 0)
              ELSE End(c1, 0)

\* provider_command(args) otherwise: the list, an unknown name, or nothing
provider_command_other(c) ==
    IF c.args.list
    THEN LET cur == get_current_provider IN
         IF cur.raised # "none" THEN Uncaught(c, cur.raised)
         ELSE End(Say(c, <<"Available LLM Providers:", "current:", cur.ret>>), 0)
    ELSE IF Falsy(c.args.provider) THEN End(c, 0)
    ELSE End(Say(Say(c, <<"Error:", "Unknown provider", c.args.provider>>),
                 <<"Available providers">>), 0)

\* a provider command that stores whatever name it is given
ProviderCommand_unchecked(w) ==
    /\ cli.pc = "main"
    /\ cli.args.command = "provider"
    /\ LET c == main_prelude(cli)
           c1 == Call(c, "provider_command")
       IN  IF c.pc = "done" THEN ReadStep(c)
           ELSE IF ~c.args.list /\ ~Falsy(c.args.provider)
                THEN provider_command_set(c1, w)
                ELSE ReadStep(provider_command_other(c1))

\* main() for provider
ProviderCommand(w) ==
    /\ cli.pc = "main"
    /\ cli.args.command = "provider"
    /\ LET c == main_prelude(cli)
           c1 == Call(c, "provider_command")
       IN  IF c.pc = "done" THEN ReadStep(c)
           ELSE IF ~c.args.list /\ c.args.provider \in PROVIDERS
                THEN provider_command_set(c1, w)
                ELSE ReadStep(provider_command_other(c1))

\* template_command(args): --list, --set NAME, --name NAME --content TEXT
template_command(c, w) ==
    LET a == c.args IN
    IF a.list
    THEN LET n == get_active_template_name IN
         [cli |-> IF n.raised # "none" THEN Uncaught(c, n.raised)
                  ELSE End(Say(c, <<"Available Templates:", "active:", n.ret>>), 0),
          file |-> file, defcfg |-> defcfg]
    ELSE IF ~Falsy(a.set)
    THEN LET r == SetNested("defaults", "active_template", a.set, w)
             c1 == Call(c, "set_active_template")
         IN  [cli |-> IF r.raised # "none" THEN Uncaught(c1, r.raised)
                      ELSE End(Say(SayIfPrinted(c1, r), <<"Active template set to", a.set>>), 0),
              file |-> r.file, defcfg |-> r.defcfg]
    ELSE IF ~Falsy(a.name) /\ a.content # <<>>
    THEN LET r == SetNested("prompt_templates", a.name, a.content, w)
             c1 == Call(c, "set_prompt_template")
         IN  [cli |-> IF r.raised # "none" THEN Uncaught(c1, r.raised)
                      ELSE End(Say(SayIfPrinted(c1, r), <<"Added template:", a.name>>), 0),
              file |-> r.file, defcfg |-> r.defcfg]
    ELSE [cli |-> End(c, 0), file |-> file, defcfg |-> defcfg]

\* main() for template
TemplateCommand(w) ==
    /\ cli.pc = "main"
    /\ cli.args.command = "template"
    /\ LET c == main_prelude(cli) IN
       IF c.pc = "done" THEN ReadStep(c)
       ELSE LET t == template_command(Call(c, "template_command"), w) IN
            Step(t.cli, t.file, t.defcfg)

\* a setup whose default answer is a provider that is not registered
SetupProvider_stale_default(answer, w) ==
    /\ cli.pc = "main"
    /\ cli.args.command = "setup"
    /\ LET c == main_prelude(cli)
           cur == get_current_provider
           provider == IF answer = "" THEN "anthropic" ELSE answer
           r == SetTop("provider", provider, w)
           c1 == [Call(c, "setup_command") EXCEPT !.choices = PROVIDERS]
           c2 == [SayIfPrinted(Call(c1, "set_current_provider"), r)
                     EXCEPT !.provider = provider, !.pc = "setup_key"]
       IN  IF c.pc = "done" THEN ReadStep(c)
           ELSE IF cur.raised # "none" THEN ReadStep(Uncaught(c1, cur.raised))
           ELSE Step(IF r.raised # "none" THEN Uncaught(c1, r.raised) ELSE c2,
                     r.file, r.defcfg)

\* setup_command(), first part: the providers are offered, the answer (the
\* empty answer takes the default, the active provider) is stored
SetupProvider(answer, w) ==
    /\ cli.pc = "main"
    /\ cli.args.command = "setup"
    /\ LET c == main_prelude(cli)
           cur == get_current_provider
           provider == IF answer = "" THEN cur.ret ELSE answer
           r == SetTop("provider", provider, w)
           c1 == [Call(c, "setup_command") EXCEPT !.choices = PROVIDERS]
           c2 == [SayIfPrinted(Call(c1, "set_current_provider"), r)
                     EXCEPT !.provider = provider, !.pc = "setup_key"]
       IN  IF c.pc = "done" THEN ReadStep(c)
           ELSE IF cur.raised # "none" THEN ReadStep(Uncaught(c1, cur.raised))
           ELSE Step(IF r.raised # "none" THEN Uncaught(c1, r.raised) ELSE c2,
                     r.file, r.defcfg)

\* setup_command(), second part: the credential of a provider other than
\* ollama is asked for, unless one exists and the user keeps it
SetupKey(update, api_key, w) ==
    /\ cli.pc = "setup_key"
    /\ LET existing_key == get_provider_api_key(cli.provider)
           r == SetNested("api_keys", cli.provider, api_key, w)
           next == [cli EXCEPT !.pc = "setup_model"]
       IN  IF cli.provider = "ollama" THEN ReadStep(Say(next, <<"Using local Ollama instance">>))
           ELSE IF existing_key.raised # "none" THEN ReadStep(Uncaught(cli, existing_key.raised))
           ELSE IF ~Falsy(existing_key.ret) /\ ~update
                THEN ReadStep(Say(next, <<"Keeping existing API key.">>))
           ELSE Step(IF r.raised # "none" THEN Uncaught(cli, r.raised)
                     ELSE Say(SayIfPrinted(Call(next, "set_provider_api_key"), r),
                              <<"API key saved.">>),
                     r.file, r.defcfg)

\* setup_command(), last part: the model is asked for (the empty answer
\* takes the stored one) and stored
SetupModel(answer, w) ==
    /\ cli.pc = "setup_model"
    /\ LET current_model == get_model_for_provider(cli.provider)
           model == IF answer = "" THEN current_model.ret ELSE answer
           r == SetNested("model_preferences", cli.provider, model, w)
       IN  IF current_model.raised # "none" THEN ReadStep(Uncaught(cli, current_model.raised))
           ELSE Step(IF r.raised # "none" THEN Uncaught(cli, r.raised)
                     ELSE End(Say(SayIfPrinted(Call(cli, "set_model_for_provider"), r),
                                  <<"Setup complete!", cli.provider, model>>), 0),
                     r.file, r.defcfg)

\* "if args.recent:": the flag was given and its number is not 0
Truthy(flag) == flag.given /\ flag.value # 0

\* a defaults command that stores every --recent value it is given
DefaultsRecent_given(w) ==
    /\ cli.pc = "main"
    /\ cli.args.command = "defaults"
    /\ LET c == main_prelude(cli)
           r == SetNested("defaults", "recent_commits", c.args.recent.value, w)
           next == [c EXCEPT !.pc = "defaults_branch"]
       IN  IF c.pc = "done" THEN ReadStep(c)
           ELSE IF ~c.args.recent.given THEN ReadStep(next)
           ELSE Step(IF r.raised # "none" THEN Uncaught(c, r.raised)
                     ELSE Say(SayIfPrinted(Call(next, "set_default_recent_commits"), r),
                              <<"Default recent commits set">>),
                     r.file, r.defcfg)

\* main() for defaults, --recent
DefaultsRecent(w) ==
    /\ cli.pc = "main"
    /\ cli.args.command = "defaults"
    /\ LET c == main_prelude(cli)
           r == SetNested("defaults", "recent_commits", c.args.recent.value, w)
           next == [c EXCEPT !.pc = "defaults_branch"]
       IN  IF c.pc = "done" THEN ReadStep(c)
           ELSE IF ~Truthy(c.args.recent) THEN ReadStep(next)
           ELSE Step(IF r.raised # "none" THEN Uncaught(c, r.raised)
                     ELSE Say(SayIfPrinted(Call(next, "set_default_recent_commits"), r),
                              <<"Default recent commits set">>),
                     r.file, r.defcfg)

\* main() for defaults, --branch
DefaultsBranch(w) ==
    /\ cli.pc = "defaults_branch"
    /\ LET r == SetNested("defaults", "compare_branch", cli.args.branch, w)
           next == [cli EXCEPT !.pc = "defaults_format"]
       IN  IF Falsy(cli.args.branch) THEN ReadStep(next)
           ELSE Step(IF r.raised # "none" THEN Uncaught(cli, r.raised)
                     ELSE Say(SayIfPrinted(Call(next, "set_default_compare_branch"), r),
                              <<"Default comparison branch set">>),
                     r.file, r.defcfg)

\* main() for defaults, --format and the end
DefaultsFormat(w) ==
    /\ cli.pc = "defaults_format"
    /\ LET r == SetNested("defaults", "output_format", cli.args.format, w)
           any == Truthy(cli.args.recent) \/ ~Falsy(cli.args.branch) \/ ~Falsy(cli.args.format)
           last(c) == End(IF any THEN c ELSE Say(c, <<"No defaults specified.">>), 0)
       IN  IF Falsy(cli.args.format) THEN ReadStep(last(cli))
           ELSE Step(IF r.raised # "none" THEN Uncaught(cli, r.raised)
                     ELSE last(Say(SayIfPrinted(Call(cli, "set_default_output_format"), r),
                                   <<"Default output format set">>)),
                     r.file, r.defcfg)

\* main() without a command: the help is printed
NoCommandGiven ==
    /\ cli.pc = "main"
    /\ cli.args.command = NoneVal
    /\ LET c == main_prelude(cli) IN
       ReadStep(IF c.pc = "done" THEN c ELSE End(Say(c, <<"usage:">>), 0))

\* what the user types, as argparse hands it to main()
Flag(v) == [given |-> TRUE, value |-> v]
NoFlag == [given |-> FALSE, value |-> 0]

ProviderArgs ==
    {[command |-> "provider", list |-> FALSE, provider |-> p] :
        p \in PROVIDERS \cup {"anthropic", "mistral", NoneVal}}
    \cup {[command |-> "provider", list |-> TRUE, provider |-> NoneVal]}

TemplateArgs ==
    {[command |-> "template", list |-> TRUE, set |-> NoneVal, name |-> NoneVal, content |-> <<>>],
     [command |-> "template", list |-> FALSE, set |-> "custom", name |-> NoneVal, content |-> <<>>],
     [command |-> "template", list |-> FALSE, set |-> NoneVal, name |-> "custom",
      content |-> CustomTemplate],
     [command |-> "template", list |-> FALSE, set |-> NoneVal, name |-> "custom", content |-> <<>>]}

DefaultsArgs ==
    {[command |-> "defaults", recent |-> x[1], branch |-> x[2], format |-> x[3]] :
        x \in {<<NoFlag, NoneVal, NoneVal>>, <<Flag(0), NoneVal, NoneVal>>,
               <<Flag(-1), NoneVal, NoneVal>>,
               <<Flag(3), NoneVal, NoneVal>>, <<NoFlag, "dev", NoneVal>>,
               <<NoFlag, NoneVal, "json">>, <<Flag(3), "dev", "json">>}}

SummaryArgs ==
    {[command |-> "recent", num |-> NoFlag, branch |-> NoneVal],
     [command |-> "recent", num |-> Flag(2), branch |-> NoneVal],
     [command |-> "commit", commit_hash |-> "abc1234"],
     [command |-> "compare", base_branch |-> "main", compare_branch |-> "dev"],
     [command |-> "time", start_date |-> "2024-01-01", end_date |-> "2024-01-31",
      branch |-> NoneVal]}

CliArgs ==
    {[command |-> "setup"], [command |-> NoneVal]}
    \cup SummaryArgs \cup ProviderArgs \cup TemplateArgs \cup DefaultsArgs

\* answers to setup's questions; the empty answer takes the default
ProviderAnswers == PROVIDERS \cup {""}
KeyAnswers == {"sk"}
ModelAnswers == {"", "m1"}

Init ==
    /\ file = FileOf("absent")
    /\ defcfg = DEFAULT_CONFIG
    /\ env = EmptyDict
    /\ summarizer = NoSummarizer
    /\ out = [op |-> "start", raised |-> "none"]
    /\ hist = EmptyDict
    /\ pristine = TRUE
    /\ calls = 0
    /\ cli = NoCommand
    /\ procs = [p \in Procs |-> Idle]

\* two processes running setters, and the file changed from outside
NextRace ==
    \/ \E p \in Procs, s \in RaceSetters : SetterLoad(p, s[1], s[2])
    \/ \E p \in Procs, w \in WriteOutcomes : SetterSave(p, w)
    \/ \E f \in ExternalFiles : External(f)

SpecRace == Init /\ [][NextRace]_vars

\* A call of one of the setters of config.py
SetterCall ==
    \/ \E x \in KeyInputs, w \in WriteOutcomes : set_provider_api_key(x[1], x[2], w)
    \/ \E p \in ProviderInputs, w \in WriteOutcomes : set_current_provider(p, w)
    \/ \E x \in ModelInputs, w \in WriteOutcomes : set_model_for_provider(x[1], x[2], w)
    \/ \E n \in CountInputs, w \in WriteOutcomes : set_default_recent_commits(n, w)
    \/ \E b \in BranchInputs, w \in WriteOutcomes : set_default_compare_branch(b, w)
    \/ \E f \in FormatInputs, w \in WriteOutcomes : set_default_output_format(f, w)
    \/ \E x \in TemplateInputs, w \in WriteOutcomes : set_prompt_template(x[1], x[2], w)
    \/ \E n \in ActiveInputs, w \in WriteOutcomes : set_active_template(n, w)

Next ==
    \/ SetterCall
    \/ \E f \in ExternalFiles : External(f)
    \/ \E e \in EnvChoices : Restart(e)
    \/ LoadConfig
    \/ \E d \in GitData : CreatePrompt(d)
    \/ \E p \in ClientNames, k \in ClientKeys : GetProvider(p, k, NoneVal)
    \/ \E p \in OverrideProviders, k \in OverrideKeys, m \in OverrideModels :
          NewSummarizer(p, k, m)
    \/ \E op \in SummarizeOps, w \in Worlds : Summarize(op, w[1], w[2])

Spec == Init /\ [][Next]_vars

\* The command surface: processes started one after the other, each running
\* main() for one command, and the settings file changing in between.
NextCli ==
    \/ \E a \in CliArgs, r \in BOOLEAN, e \in EnvChoices : Start(a, r, e)
    \/ \E w \in Worlds : SummaryCommand(w[1], w[2])
    \/ \E w \in WriteOutcomes : ProviderCommand(w)
    \/ \E w \in WriteOutcomes : TemplateCommand(w)
    \/ \E p \in ProviderAnswers, w \in WriteOutcomes : SetupProvider(p, w)
    \/ \E u \in BOOLEAN, k \in KeyAnswers, w \in WriteOutcomes : SetupKey(u, k, w)
    \/ \E m \in ModelAnswers, w \in WriteOutcomes : SetupModel(m, w)
    \/ \E w \in WriteOutcomes : DefaultsRecent(w)
    \/ \E w \in WriteOutcomes : DefaultsBranch(w)
    \/ \E w \in WriteOutcomes : DefaultsFormat(w)
    \/ NoCommandGiven
    \/ \E f \in ExternalFiles : External(f)

SpecCli == Init /\ [][NextCli]_vars

\* The History Reader on its own: its functions called in a repository.
NextGit ==
    \/ \E r \in Repos, n \in CommitCounts, b \in BranchNames : GetCommitLog(r, n, b)
    \/ \E r \in Repos, b \in BranchNames \ {NoneVal}, c \in BranchNames \ {NoneVal} :
          GitCompareBranches(r, b, c)
    \/ \E r \in {NoRepo, MainRepo}, d \in DatePairs, b \in {NoneVal, "nosuch"} :
          GetCommitsInTimeRange(r, d[1], d[2], b)
    \/ \E r \in {NoRepo, MainRepo}, h \in CommitHashes, d \in DiffLists :
          GetCommitDetails(r, h, d)

SpecGit == Init /\ [][NextGit]_vars

\* A model client on its own: it is constructed, then asked for a text.
NextClient ==
    \/ \E p \in ClientNames, k \in ClientKeys, m \in OverrideModels : GetProvider(p, k, m)
    \/ \E d \in Prompts, n \in NetOutcomes : Generate(d, n)

SpecClient == Init /\ [][NextClient]_vars

\* The settings store on its own: the setters, the two accessors that look a
\* value up by name, the file changing from outside, the process restarting.
NextStore ==
    \/ SetterCall
    \/ \E f \in ExternalFiles : External(f)
    \/ \E e \in EnvChoices : Restart(e)
    \/ \E n \in TemplateNames : GetPromptTemplate(n)
    \/ \E p \in KeyProviders : GetProviderApiKey(p)

SpecStore == Init /\ [][NextStore]_vars

\* ================================================================ claims

SetterOps ==
    {"set_provider_api_key", "set_current_provider", "set_model_for_provider",
     "set_default_recent_commits", "set_default_compare_branch",
     "set_default_output_format", "set_prompt_template", "set_active_template"}

\* the last call was a summarize operation that returned the error string
ReturnedErrorString ==
    /\ out.raised = "none"
    /\ Len(out.ret) = 2
    /\ out.ret[1] = ErrorPrefix

\* the last call was a summarize operation whose History Reader or Model
\* Client failed: the history read, the construction of the client (missing
\* credential), or the request (transport, status, body)
ReaderOrClientFailed ==
    \/ out.h = "GitError"
    \/ /\ out.trace = <<"history", "client">>
       /\ Summarizer_get_provider(summarizer).raised = "ModelError"
    \/ /\ Len(out.trace) = 4
       /\ out.n # "ok"

\* C1: a summarize operation whose History Reader or Model Client fails does
\* not raise: it returns a string beginning with "Error generating summary: ".
C1_FailuresBecomeErrorStrings ==
    (out.op \in SummarizeOps /\ ReaderOrClientFailed) => ReturnedErrorString

\* C2: a summarize operation whose resolved provider name is not registered
\* fails at client instantiation and still ends by returning an error string.
C2_UnknownProviderBecomesErrorString ==
    (out.op \in SummarizeOps /\ summarizer.provider_name \notin PROVIDERS)
        => /\ ReturnedErrorString
           /\ out.h = "ok" => out.trace = <<"history", "client">>

RemoteProviders == {"groq", "openai", "gemini"}

\* C3: constructing a remote client (groq, openai, gemini) with an absent or
\* empty credential fails with ModelError before any request is sent, also
\* inside a summarize operation; constructing the ollama client never fails.
C3_CredentialCheckedAtConstruction ==
    /\ out.op = "get_provider" =>
          /\ (out.provider_name \in RemoteProviders /\ Falsy(out.api_key))
                => (out.raised = "ModelError" /\ out.net = 0)
          /\ out.provider_name = "ollama" => out.raised = "none"
    /\ (out.op \in SummarizeOps /\ out.h = "ok") =>
          /\ (summarizer.provider_name \in RemoteProviders /\ Falsy(summarizer.api_key))
                => (out.trace = <<"history", "client">> /\ out.net = 0
                    /\ ReturnedErrorString)
          /\ summarizer.provider_name = "ollama" => Len(out.trace) > 2

C3_Witness ==
    /\ out.op = "get_provider"
    /\ out.provider_name = "groq"
    /\ out.api_key = ""
    /\ out.raised = "ModelError"

\* what the settings file stores, read off the file itself
Stored(top) ==
    IF file.kind = "object" /\ top \in DOMAIN file.doc THEN file.doc[top] ELSE EmptyDict

StoredProvider ==
    IF file.kind = "object" /\ "provider" \in DOMAIN file.doc
    THEN file.doc["provider"] ELSE "groq"

\* the provider a Summarizer(provider_name, ...) call resolves
ResolvedProvider == IF Falsy(out.provider_name) THEN StoredProvider ELSE out.provider_name

\* C4: for a provider with a stored credential and a stored model,
\* Summarizer(provider_name, api_key, model) takes each given override and,
\* for each omitted (None or empty) one, the value stored for the resolved
\* provider, not the one stored for the active provider.
C4_OverridesWinOverStored ==
    (/\ out.op = "Summarizer"
     /\ file.kind = "object"
     /\ ResolvedProvider \in DOMAIN Stored("api_keys")
     /\ ResolvedProvider \in DOMAIN Stored("model_preferences"))
    => /\ out.raised = "none"
       /\ summarizer.made
       /\ summarizer.provider_name = ResolvedProvider
       /\ summarizer.api_key =
             IF Falsy(out.api_key) THEN Stored("api_keys")[ResolvedProvider]
             ELSE out.api_key
       /\ summarizer.model =
             IF Falsy(out.model) THEN Stored("model_preferences")[ResolvedProvider]
             ELSE out.model

C4_Witness ==
    /\ out.op = "Summarizer"
    /\ out.provider_name = "openai"
    /\ out.api_key = NoneVal
    /\ out.model = "xm"
    /\ StoredProvider = "groq"
    /\ "openai" \in DOMAIN Stored("api_keys")
    /\ summarizer.api_key = "ok"
    /\ summarizer.model = "xm"

FieldProviders == {"groq", "openai", "ollama", "anthropic", "mistral"}
FieldTemplates == {"default", "custom", "nonexistent"}

\* the value a getter must return for a field: the one last set, else dflt
Expected(field, dflt) == Returned(Get(hist, field, dflt))

\* C5: on a fresh install, after any sequence of setter calls whose writes
\* succeeded, each getter returns the value last set for its field, and the
\* built-in default (for a credential: the environment's) when none was set.
C5_SettingsRoundTrip ==
    pristine =>
       /\ get_current_provider = Expected(<<"provider">>, "groq")
       /\ \A p \in FieldProviders :
             /\ get_provider_api_key(p) = Expected(<<"api_keys", p>>, EnvKey(p))
             /\ get_model_for_provider(p) =
                   Expected(<<"model_preferences", p>>, Get(DefaultModels, p, ""))
       /\ \A n \in FieldTemplates :
             get_prompt_template(n) = Expected(<<"prompt_templates", n>>, DEFAULT_TEMPLATE)
       /\ get_default_recent_commits = Expected(<<"defaults", "recent_commits">>, 5)
       /\ get_default_compare_branch = Expected(<<"defaults", "compare_branch">>, "main")
       /\ get_default_output_format = Expected(<<"defaults", "output_format">>, "text")
       /\ get_active_template_name = Expected(<<"defaults", "active_template">>, "default")

HasTopLevelKeys(doc) == TopKeys \subseteq DOMAIN doc

HasNestedKeys(doc) ==
    /\ DOMAIN DefaultDefaults \subseteq DOMAIN doc["defaults"]
    /\ DOMAIN DefaultModels \subseteq DOMAIN doc["model_preferences"]

\* C6 as stated: every document load_config returns, and so every document a
\* setter writes, has every key of the default schema, nested keys included.
C6_DocumentHasWholeSchema ==
    /\ (out.op = "load_config" /\ out.raised = "none")
          => (HasTopLevelKeys(out.ret) /\ HasNestedKeys(out.ret))
    /\ (out.op \in SetterOps /\ out.raised = "none" /\ out.w = "ok")
          => (HasTopLevelKeys(file.doc) /\ HasNestedKeys(file.doc))

\* C6 as amended: every document load_config returns, and so every document a
\* setter writes, has every top-level key of the default schema.
C6_DocumentHasTopLevelKeys ==
    /\ (out.op = "load_config" /\ out.raised = "none") => HasTopLevelKeys(out.ret)
    /\ (out.op \in SetterOps /\ out.raised = "none" /\ out.w = "ok")
          => (file.kind = "object" /\ HasTopLevelKeys(file.doc))

C6_Witness ==
    /\ out.op = "load_config"
    /\ out.raised = "none"
    /\ file = FileDoc(PartialDoc)
    /\ out.ret["api_keys"] = EmptyDict

\* C7: load_config never fails: for a file that is absent, unreadable, not
\* JSON, or JSON that is not an object, it returns the defaults.
C7_LoadNeverFails ==
    (out.op = "load_config" /\ file.kind \in {"absent", "unreadable", "badjson", "nonobject"})
        => (out.raised = "none" /\ out.ret = defcfg)

\* a setter loaded the configuration and its write of the file then failed
WriteFailed == load_config.raised = "none" /\ out'.op \in SetterOps /\ out'.w # "ok"

\* C8 as stated: when the write fails the setter reports it, returns without
\* raising, and the file is as it was before the call.
C8_FailedWriteLeavesFile ==
    [][WriteFailed => (out'.raised = "none" /\ out'.printed /\ file' = file)]_vars

\* C8 as amended: when the write fails the setter reports it and returns
\* without raising; the file is as it was when it could not be opened, and is
\* left truncated, no longer JSON, when it was opened and the write failed.
C8_FailedWriteIsReported ==
    [][WriteFailed =>
          /\ out'.raised = "none"
          /\ out'.printed
          /\ out'.w = "openfail" => file' = file
          /\ out'.w = "writefail" => file'.kind = "badjson"]_vars

C8_Witness ==
    /\ out.op = "set_current_provider"
    /\ out.w = "openfail"
    /\ out.raised = "none"
    /\ out.printed
    /\ file.kind = "object"

\* the built-in template with git_data in the place of its placeholder
BuiltinPrompt(git_data) ==
    <<DEFAULT_TEMPLATE[1].s>> \o git_data \o <<DEFAULT_TEMPLATE[3].s>>

ActiveIs(name) == get_active_template_name = Returned(name)

\* C9: when the active template name is "default", create_prompt(X) is the
\* built-in template with X substituted, whatever is stored under "default".
C9_DefaultIsBuiltin ==
    (out.op = "create_prompt" /\ ActiveIs("default"))
        => (out.raised = "none" /\ out.ret = BuiltinPrompt(out.git_data))

C9_Witness ==
    /\ out.op = "create_prompt"
    /\ ActiveIs("default")
    /\ "default" \in DOMAIN Stored("prompt_templates")
    /\ Stored("prompt_templates")["default"] = CustomTemplate
    /\ out.git_data = <<"def5678 Use {git_data}">>
    /\ out.ret = BuiltinPrompt(<<"def5678 Use {git_data}">>)

\* C10: when the active template name has no stored template,
\* create_prompt(X) is the built-in template with X substituted, whatever
\* settings calls the process made before.
C10_UnknownNameIsBuiltin ==
    (/\ out.op = "create_prompt"
     /\ file.kind = "object"
     /\ "prompt_templates" \in DOMAIN file.doc
     /\ get_active_template_name.raised = "none"
     /\ get_active_template_name.ret \notin DOMAIN file.doc["prompt_templates"])
    => (out.raised = "none" /\ out.ret = BuiltinPrompt(out.git_data))

\* C11: config.get_prompt_template("default") returns the built-in template,
\* whatever the settings file stores under the name "default".
C11_DefaultLookupIsConstant ==
    (out.op = "get_prompt_template" /\ out.template_name = "default"
        /\ out.raised = "none")
    => out.ret = DEFAULT_TEMPLATE

\* the active template name and the template the settings file stores under it
StoredActiveName == Get(Stored("defaults"), "active_template", "default")
StoredActiveTemplate == Stored("prompt_templates")[StoredActiveName]

LacksPlaceholder(template) ==
    ~\E i \in DOMAIN template : template[i] = Field("git_data")

\* C12: create_prompt fails when the template stored under the active name
\* has no {git_data} placeholder (the empty template included); it never
\* returns a prompt without the history text.
C12_NoPlaceholderIsAnError ==
    (/\ out.op = "create_prompt"
     /\ file.kind = "object"
     /\ StoredActiveName # "default"
     /\ StoredActiveName \in DOMAIN Stored("prompt_templates")
     /\ LacksPlaceholder(StoredActiveTemplate))
    => out.raised # "none"

\* C13: generate(prompt) returns the response text or fails with ModelError,
\* whatever the endpoint does: unreachable, error status, a body that is not
\* JSON, a body without the expected fields.
C13_GenerateFailsOnlyWithModelError ==
    out.op = "generate" =>
        \/ out.raised = "none" /\ out.n = "ok" /\ out.ret = ResponseText
        \/ out.raised = "ModelError" /\ out.n # "ok"

\* the credential the settings file stores for provider p, if it stores one
HasStoredKey(p) == p \in DOMAIN Stored("api_keys")

\* C14: get_provider_api_key(P) returns the credential the settings file
\* stores for P; when the file stores none, the environment's
\* <P>_API_KEY; and None when neither exists.
C14_FileThenEnvironment ==
    (out.op = "get_provider_api_key" /\ out.raised = "none")
    => out.ret = IF HasStoredKey(out.provider)
                 THEN Stored("api_keys")[out.provider]
                 ELSE EnvKey(out.provider)

\* ---------------------------------------------------------------- command surface

Contains(seq, x) == \E i \in DOMAIN seq : seq[i] = x

Handlers ==
    {"recent_command", "commit_command", "compare_command", "time_range_command",
     "setup_command", "provider_command", "template_command"}

\* no summarizer was created and no command handler ran
NothingRan ==
    /\ ~Contains(cli.trace, "Summarizer")
    /\ \A f \in Handlers \cup SetterOps : ~Contains(cli.trace, f)

\* main() ended on an exception raised while the parser was being built
DiedBuildingParser ==
    /\ cli.trace = <<>>
    /\ Len(cli.console) = 1
    /\ cli.console[1][1] = "Traceback"

\* C15: recent, commit, compare and time started outside a repository end
\* with an error printed and a non-zero exit code, before any summarizer is
\* created or any handler runs; setup, provider, template and defaults never
\* look for the repository and never print its error.
C15_RepositoryCheckedFirst ==
    /\ (cli.pc = "done" /\ cli.args.command \in RepoCommands /\ ~cli.inrepo)
          => /\ cli.exit # 0
             /\ NothingRan
             /\ cli.console = <<NotARepository>> \/ DiedBuildingParser
    /\ cli.args.command \notin RepoCommands
          => /\ ~Contains(cli.trace, "get_repo")
             /\ ~Contains(cli.console, NotARepository)

C15_Witness ==
    /\ cli.pc = "done"
    /\ cli.args.command = "time"
    /\ ~cli.inrepo
    /\ cli.exit = 1
    /\ cli.trace = <<"get_repo">>
    /\ cli.console = <<NotARepository>>

\* C16: the time command started inside a repository asks the Summarizer
\* for the summary of the date range and ends, like recent, commit and
\* compare, by printing the panel.
C16_TimeCommandCompletes ==
    (/\ cli.pc = "done"
     /\ cli.args.command = "time"
     /\ Contains(cli.trace, "time_range_command"))
    => /\ Contains(cli.trace, "summarize_time_range")
       /\ cli.exit = 0
       /\ cli.console[Len(cli.console)][1] = "Panel"

SupportedProviders == {"anthropic", "gemini", "groq", "ollama", "openai"}

\* the provider command, given a name without --list, has just run
ProviderNamed ==
    /\ cli.pc = "main"
    /\ cli'.pc = "done"
    /\ cli.args.command = "provider"
    /\ ~cli.args.list
    /\ ~Falsy(cli.args.provider)
    /\ Contains(cli'.trace, "provider_command")

\* C17: setup offers exactly anthropic, gemini, groq, ollama and openai, and
\* "provider P" for each of them calls set_current_provider(P) and, when the
\* write succeeds, leaves P stored as the active provider.
C17_FiveProvidersSupported ==
    [][/\ cli'.choices # {} => cli'.choices = SupportedProviders
       /\ (ProviderNamed /\ cli.args.provider \in SupportedProviders)
             => /\ Contains(cli'.trace, "set_current_provider")
                /\ ~Contains(cli'.console, <<"Error saving configuration">>)
                      => (file'.kind = "object" /\ file'.doc["provider"] = cli.args.provider)
      ]_vars

\* C18: the provider command given a name that is not registered prints
\* "Unknown provider", never calls set_current_provider, and leaves the
\* settings file, and with it the active provider, as they were.
C18_UnknownProviderChangesNothing ==
    [][(ProviderNamed /\ cli.args.provider \notin PROVIDERS)
          => /\ Contains(cli'.console, <<"Error:", "Unknown provider", cli.args.provider>>)
             /\ ~Contains(cli'.trace, "set_current_provider")
             /\ file' = file
             /\ defcfg' = defcfg
             /\ get_current_provider' = get_current_provider
             /\ cli'.exit = 0
      ]_vars

C18_Witness ==
    /\ cli.pc = "done"
    /\ cli.args.command = "provider"
    /\ cli.args.provider = "mistral"
    /\ cli.trace = <<"provider_command">>
    /\ Contains(cli.console, <<"Error:", "Unknown provider", "mistral">>)
    /\ StoredProvider = "ollama"

\* ---------------------------------------------------------------- history reader

\* C19: in a repository, get_commit_log with a branch name that does not
\* exist, and compare_branches when the base or the compare branch does not
\* exist, fail with the GitError "Branch ... not found" naming the missing
\* branch (the base one first), and send no query before failing.
C19_MissingBranchFailsFirst ==
    /\ (/\ out.op = "get_commit_log"
        /\ out.repo.isrepo
        /\ ~Falsy(out.branch)
        /\ out.branch \notin out.repo.branches)
       => /\ out.raised = "GitError"
          /\ out.msg = <<"Branch not found", out.branch>>
          /\ out.queries = <<>>
    /\ (/\ out.op = "git_compare_branches"
        /\ out.repo.isrepo
        /\ {out.base_branch, out.compare_branch} \ out.repo.branches # {})
       => /\ out.raised = "GitError"
          /\ out.msg = <<"Branch not found",
                         IF out.base_branch \notin out.repo.branches
                         THEN out.base_branch ELSE out.compare_branch>>
          /\ out.queries = <<>>

C19_Witness ==
    /\ out.op = "git_compare_branches"
    /\ out.repo = TwoBranchRepo
    /\ out.base_branch = "main"
    /\ out.compare_branch = "nosuch"
    /\ out.raised = "GitError"
    /\ out.msg = <<"Branch not found", "nosuch">>

\* the text is YYYY-MM-DD, four, two and two digits, and names a day
WellFormedDate(text) ==
    /\ Len(text) = 10
    /\ text[5] = "-" /\ text[8] = "-"
    /\ \A i \in {1, 2, 3, 4, 6, 7, 9, 10} : IsDigit(text[i])
    /\ LET y == Number(SubSeq(text, 1, 4))
           m == Number(SubSeq(text, 6, 7))
           d == Number(SubSeq(text, 9, 10))
       IN  y >= 1 /\ m \in 1..12 /\ d \in 1..DaysIn(y, m)

\* the text is four digits, "-", a month, "-", a day of that month, where
\* the month and the day have one or two digits and a one-digit day may
\* have a blank before it
LenientDate(text) ==
    \E lm \in {1, 2}, ld \in {1, 2} :
       /\ Len(text) = 6 + lm + ld
       /\ text[5] = "-" /\ text[6 + lm] = "-"
       /\ \A i \in (1..4) \cup (6..(5 + lm)) \cup {Len(text)} : IsDigit(text[i])
       /\ ld = 2 => (IsDigit(text[Len(text) - 1]) \/ text[Len(text) - 1] = " ")
       /\ LET y == Number(SubSeq(text, 1, 4))
              m == Number(SubSeq(text, 6, 5 + lm))
              d == Number(SelectSeq(SubSeq(text, 7 + lm, Len(text)), IsDigit))
          IN  y >= 1 /\ m \in 1..12 /\ d \in 1..DaysIn(y, m)

InvalidDateFailure ==
    /\ out.raised = "GitError"
    /\ out.msg = <<"Invalid date format">>
    /\ out.queries = <<>>

DiffStarts(ret) == SelectSeq([i \in 1..Len(ret) |-> i], LAMBDA i : ret[i].kind = "diff --git")

Section(ret, i) ==
    LET starts == DiffStarts(ret)
        last == IF i < Len(starts) THEN starts[i + 1] - 1 ELSE Len(ret)
    IN SubSeq(ret, starts[i], last)

\* the content lines of one sign in a section
Shown(section, sign) ==
    LET hits == SelectSeq(section, LAMBDA r : r.kind = sign) IN
    [i \in 1..Len(hits) |-> hits[i].line]

\* how many "..." markers a section has for the lines of one sign
Markers(section, sign) ==
    Len(SelectSeq(section, LAMBDA r : r.kind = "..." /\ r.side = sign))

\* one side of one changed path is rendered as the claim says
SideRendered(section, sign, lines) ==
    /\ Len(Shown(section, sign)) <= PreviewLines
    /\ Markers(section, sign) = (IF Len(lines) > PreviewLines THEN 1 ELSE 0)
    /\ Len(lines) <= PreviewLines => Shown(section, sign) = lines

\* C21: for every changed path of the commit, get_commit_details emits at
\* most 5 lines of each side, the "..." marker of a side exactly when that
\* side has more than 5 lines, and all the lines of a side that has 5 lines
\* or fewer.
C21_FiveLinesPerSide ==
    (out.op = "get_commit_details" /\ out.raised = "none") =>
        /\ Len(DiffStarts(out.ret)) = Len(out.diffs)
        /\ \A i \in 1..Len(out.diffs) :
              /\ SideRendered(Section(out.ret, i), "-", out.diffs[i].a_lines)
              /\ SideRendered(Section(out.ret, i), "+", out.diffs[i].b_lines)

\* the same, for the paths that have a blob on both sides
C21_FiveLinesPerSideOfModifiedFiles ==
    (out.op = "get_commit_details" /\ out.raised = "none") =>
        /\ Len(DiffStarts(out.ret)) = Len(out.diffs)
        /\ \A i \in 1..Len(out.diffs) :
              (out.diffs[i].a_blob /\ out.diffs[i].b_blob) =>
                  /\ SideRendered(Section(out.ret, i), "-", out.diffs[i].a_lines)
                  /\ SideRendered(Section(out.ret, i), "+", out.diffs[i].b_lines)


\* ---- C22

\* the records of one kind in a rendering, in their order
OfKind(ret, kind) == SelectSeq(ret, LAMBDA r : r.kind = kind)

\* the rendering has one block for each of the first n commits of the
\* traversal, in the traversal's order, with short hash, subject and author
BlocksOfFirst(ret, commits, n) ==
    /\ n <= Len(commits)
    /\ Len(OfKind(ret, "commit")) = n
    /\ Len(OfKind(ret, "author")) = n
    /\ Len(OfKind(ret, "total")) = n
    /\ \A i \in 1..n :
          /\ Len(OfKind(ret, "commit")[i].short_hash) = 7
          /\ IsPrefix(OfKind(ret, "commit")[i].short_hash, commits[i].hexsha)
          /\ OfKind(ret, "commit")[i].first_line = commits[i].subject
          /\ OfKind(ret, "author")[i].name = commits[i].author

\* C22 as stated: get_commit_log(count, branch) renders at most count
\* commits, one block per commit, most recent first as the traversal
\* produced them, each block with the commit's 7-character short hash,
\* subject line and author name.
C22_AtMostCountBlocks ==
    (out.op = "get_commit_log" /\ out.raised = "none") =>
        \E n \in 0..Len(out.repo.commits) :
            /\ n <= out.num_commits
            /\ BlocksOfFirst(out.ret, out.repo.commits, n)

\* C22 as amended: a count of zero or more bounds the number of blocks (the
\* first count commits of the traversal are rendered, all of them when there
\* are fewer); a negative count is no bound: every commit of the traversal
\* is rendered.  Blocks are in the traversal's order, each with the
\* commit's 7-character short hash, subject line and author name.
C22_CountBoundsBlocksUnlessNegative ==
    (out.op = "get_commit_log" /\ out.raised = "none") =>
        LET all == Len(out.repo.commits)
            n == IF out.num_commits < 0 \/ out.num_commits > all THEN all
                 ELSE out.num_commits
        IN BlocksOfFirst(out.ret, out.repo.commits, n)

\* a count of 1 in a repository of two commits: the most recent one is shown
C22_Witness ==
    /\ out.op = "get_commit_log" /\ out.raised = "none"
    /\ out.num_commits = 1
    /\ Len(out.repo.commits) = 2
    /\ Len(OfKind(out.ret, "commit")) = 1
    /\ OfKind(out.ret, "commit")[1].first_line = Commit1.subject


\* ---- C23

AllSteps == <<"history", "client", "prompt", "generate">>

\* what an operation that has just ended shows of its steps
StepsOnceInOrder(op, h) ==
    /\ IsPrefix(out.trace, AllSteps) /\ out.trace # <<>>
    /\ out.net <= 1
    /\ out.net = 1 <=> out.trace = AllSteps
    /\ h # "ok" => out.trace = <<"history">>
    /\ out.trace = AllSteps =>
          /\ create_prompt(HistoryText(op)).raised = "none"
          /\ out.prompt = create_prompt(HistoryText(op)).ret
    /\ (out.trace = AllSteps /\ out.n = "ok") => (out.raised = "none" /\ out.ret = ResponseText)

\* C23: a summarize operation runs its steps at most once each and in a
\* fixed order: the history read, the client, the prompt rendered from that
\* history text, one generate call with that prompt, whose result is
\* returned unchanged; it sends at most one request, never a second one
\* after a failure, and none when the history read or the construction of
\* the client failed.
C23_StepsOnceInOrder ==
    [][\A op \in SummarizeOps, w \in Worlds :
          Summarize(op, w[1], w[2]) => StepsOnceInOrder(op, w[1])']_vars

\* an operation whose request failed, and one that went through
C23_Witness ==
    /\ out.op \in SummarizeOps
    /\ out.trace = AllSteps
    /\ out.net = 1
    /\ out.n = "ConnectionError"
    /\ out.ret[1] = ErrorPrefix


\* ---- C24

\* the history read fails and the client cannot be built
BothFail(h) == h # "ok" /\ Summarizer_get_provider(summarizer).raised # "none"

\* the operation ended with the failure of the client: its error string, or
\* the exception get_provider raised
ClientFailureReported ==
    LET c == Summarizer_get_provider(summarizer) IN
    /\ "client" \in {out.trace[i] : i \in DOMAIN out.trace}
    /\ IF c.raised = "ModelError" THEN out.raised = "none" /\ out.ret = <<ErrorPrefix, c.msg>>
       ELSE out.raised = c.raised

\* the operation ended with the failure of the history read
HistoryFailureReported(op, h) ==
    /\ out.trace = <<"history">>
    /\ out.raised = "none"
    /\ out.ret = <<ErrorPrefix, history_read(op, h).msg>>

\* C24 as stated: the client is instantiated, and its credential checked,
\* before the history is read: when both would fail, the failure reported
\* is the client's.
C24_ClientBeforeHistory ==
    [][\A op \in SummarizeOps, w \in Worlds :
          (Summarize(op, w[1], w[2]) /\ BothFail(w[1])) => ClientFailureReported']_vars

\* C24 as amended: the history is read before the client is instantiated:
\* when both would fail, the failure reported is the history read's, and the
\* client is not built at all.
C24_HistoryBeforeClient ==
    [][\A op \in SummarizeOps, w \in Worlds :
          (Summarize(op, w[1], w[2]) /\ BothFail(w[1])) =>
              HistoryFailureReported(op, w[1])']_vars

\* an operation outside a repository, by a summarizer without a credential
C24_Witness ==
    /\ out.op \in SummarizeOps
    /\ out.h = "GitError"
    /\ Summarizer_get_provider(summarizer).raised = "ModelError"
    /\ out.ret = <<ErrorPrefix, "Not a git repository">>


\* ---- C25

\* the document that load_config yields from the current file in a process
\* that has called no accessor before
FreshDocument ==
    IF file.kind = "object"
    THEN [k \in TopKeys \cup DOMAIN file.doc |->
            IF k \in DOMAIN file.doc THEN file.doc[k] ELSE DEFAULT_CONFIG[k]]
    ELSE DEFAULT_CONFIG

\* C25: what a getter returns depends on the current content of the
\* settings file and on the environment only, never on the setter and getter
\* calls made earlier in the process: every getter returns what it would
\* return in a process that starts now.
C25_GettersDependOnFileOnly ==
    load_config.raised = "none" =>
        LET fresh == FreshDocument IN
        /\ get_current_provider.ret = Get(fresh, "provider", "groq")
        /\ \A p \in KeyProviders :
              get_provider_api_key(p).ret =
                 IF p \in DOMAIN Get(fresh, "api_keys", EmptyDict)
                 THEN fresh["api_keys"][p] ELSE EnvKey(p)
        /\ \A p \in PROVIDERS :
              get_model_for_provider(p).ret =
                 Get(Get(fresh, "model_preferences", EmptyDict), p, "")
        /\ get_default_recent_commits.ret =
              Get(Get(fresh, "defaults", EmptyDict), "recent_commits", 5)
        /\ get_default_compare_branch.ret =
              Get(Get(fresh, "defaults", EmptyDict), "compare_branch", "main")
        /\ get_default_output_format.ret =
              Get(Get(fresh, "defaults", EmptyDict), "output_format", "text")
        /\ get_active_template_name.ret =
              Get(Get(fresh, "defaults", EmptyDict), "active_template", "default")
        /\ \A n \in TemplateNames :
              get_prompt_template(n).ret =
                 Get(Get(fresh, "prompt_templates", EmptyDict), n, DEFAULT_TEMPLATE)


\* ---- C26

\* process p has loaded and another process has since saved another field
Overtaken(p) ==
    /\ procs[p].pc = "loaded"
    /\ \E m \in procs[p].missed : m[1] # procs[p].field

\* C26: two setters of different fields, in two processes, that both load
\* the file before either saves: the second save writes the document the
\* second process loaded, so the field the first one saved is back at the
\* value the second process had loaded, and the second save raises nothing
\* and prints nothing (last writer wins).
C26_LastWriterWins ==
    [][\A p \in Procs :
          (SetterSave(p, "ok") /\ Overtaken(p) /\ file.kind # "nodir") =>
              /\ file' = FileDoc(procs[p].config)
              /\ \A m \in procs[p].missed :
                    m[1] # procs[p].field =>
                        Lookup(file'.doc, m[1]) = Lookup(procs[p].config, m[1])
              /\ out'.raised = "none" /\ ~out'.printed]_vars

\* the second save of a race: the process saved the key while it had missed
\* the other's save of the provider openai; the file now has the key and
\* the built-in provider, and nothing was raised or printed
C26_Witness ==
    /\ out.op = "setter_save" /\ out.raised = "none" /\ ~out.printed
    /\ out.field = <<"api_keys", "groq">>
    /\ <<<<"provider">>, "openai">> \in out.missed
    /\ file.kind = "object"
    /\ Lookup(file.doc, <<"api_keys", "groq">>) = "gk"
    /\ Lookup(file.doc, <<"provider">>) = "groq"


\* ---- C27

\* C27: whatever setup and provider commands have run, the stored active
\* provider is a key of the PROVIDERS registry: a summarize operation that
\* takes the active provider from the settings finds it registered.
C27_ActiveProviderRegistered ==
    get_current_provider.raised = "none" => get_current_provider.ret \in PROVIDERS

\* a setup or provider command has stored a provider other than the built-in
\* one, and the provider command has turned an unregistered name down
C27_Witness ==
    /\ cli.pc = "done"
    /\ cli.args.command = "provider"
    /\ cli.args.provider \notin PROVIDERS
    /\ ~Falsy(cli.args.provider)
    /\ file.kind = "object"
    /\ get_current_provider.ret \in PROVIDERS \ {"groq"}


\* ---- C28

\* a Summarizer is constructed, or one of its three operations runs
SummarizerStep ==
    \/ \E p \in OverrideProviders, k \in OverrideKeys, m \in OverrideModels :
          NewSummarizer(p, k, m)
    \/ \E op \in SummarizeOps, w \in Worlds : Summarize(op, w[1], w[2])

\* C28: constructing a Summarizer and running one of its operations, with
\* whatever result, writes nothing to the settings file and changes no
\* setting: the file, the defaults in memory and what load_config() yields
\* are the same afterwards.
C28_SummarizeOnlyReads ==
    [][SummarizerStep => (file' = file /\ defcfg' = defcfg /\ load_config' = load_config)]_vars

\* an operation that ended with an error string, with settings stored in the
\* file by setters before
C28_Witness ==
    /\ out.op \in SummarizeOps
    /\ out.raised = "none"
    /\ out.ret[1] = ErrorPrefix
    /\ out.trace = <<"history", "client">>
    /\ file.kind = "object"
    /\ hist # EmptyDict


\* ---- C29

\* the file exists and is not valid JSON: bytes that are not UTF-8, or text
\* that JSON cannot parse
NotValidJson == file.kind \in {"binary", "badjson"}

\* C29: a setter called on a settings file that is not valid JSON replaces
\* it with a valid document that is the built-in defaults plus the one field
\* being set.
C29_SetterReplacesInvalidFile ==
    [][(SetterCall /\ NotValidJson) =>
          /\ out'.raised = "none"
          /\ file' = FileDoc(Assign(DEFAULT_CONFIG, out'.field, hist'[out'.field]))]_vars

\* the same for a file of unparsable text, in a process that has called no
\* setter before, when the write succeeds
C29_FreshSetterReplacesBadText ==
    [][(SetterCall /\ file.kind = "badjson" /\ defcfg = DEFAULT_CONFIG /\ out'.w = "ok") =>
          /\ out'.raised = "none"
          /\ file' = FileDoc(Assign(DEFAULT_CONFIG, out'.field, hist'[out'.field]))]_vars


\* ---- C30

\* the stored default commit count
StoredCount == get_default_recent_commits.ret

\* the defaults command has just gone through its --recent part
DefaultsRecentRan ==
    /\ cli.pc = "main"
    /\ cli.args.command = "defaults"
    /\ cli'.pc # "main"

\* "defaults --recent 0" stores nothing and, alone, ends with the message
\* that no defaults were specified
ZeroIsNotStored ==
    /\ (DefaultsRecentRan /\ cli.args.recent = Flag(0)) =>
          /\ ~Contains(cli'.trace, "set_default_recent_commits")
          /\ file' = file /\ defcfg' = defcfg
          /\ StoredCount' = StoredCount
    /\ (/\ cli.pc = "defaults_format" /\ cli'.pc = "done"
        /\ cli.args.recent = Flag(0) /\ Falsy(cli.args.branch) /\ Falsy(cli.args.format))
          => Contains(cli'.console, <<"No defaults specified.">>)

\* set_default_recent_commits(N) was called for a non-zero N and returned
NonZeroWasSet ==
    /\ DefaultsRecentRan
    /\ cli.args.recent.given /\ cli.args.recent.value # 0
    /\ Contains(cli'.trace, "set_default_recent_commits")

\* save_config printed its message: the write failed
WriteFailedIn(c) == Contains(c.console, <<"Error saving configuration">>)

\* recent without -n asks for the stored default
RecentUsesStored ==
    (/\ cli.pc = "main" /\ cli.args.command = "recent"
     /\ ~cli.args.num.given /\ cli'.count.given)
        => cli'.count.value = StoredCount

\* C30 as stated: "defaults --recent 0" leaves the stored default commit
\* count as it was and, without another flag, reports that no defaults were
\* specified; for every non-zero N the stored default becomes N, and it is
\* the count that a later recent without -n uses.
C30_NonZeroIsStored ==
    [][/\ ZeroIsNotStored
       /\ NonZeroWasSet => StoredCount' = cli.args.recent.value
       /\ RecentUsesStored]_vars

\* C30 as amended: the same, the stored default becoming N when the write
\* of the settings file succeeds; when it fails the command still prints
\* that the default was set.
C30_NonZeroIsStoredWhenWritten ==
    [][/\ ZeroIsNotStored
       /\ (NonZeroWasSet /\ ~WriteFailedIn(cli')) => StoredCount' = cli.args.recent.value
       /\ NonZeroWasSet => Contains(cli'.console, <<"Default recent commits set">>)
       /\ RecentUsesStored]_vars

\* recent without -n has asked for 3 commits, the default that an earlier
\* "defaults --recent 3" stored
C30_Witness ==
    /\ cli.args.command = "recent"
    /\ ~cli.args.num.given
    /\ cli.count = Flag(3)
    /\ file.kind = "object"
    /\ StoredCount = 3

====
